---------------------------- MODULE Spec2Model ----------------------------
(***************************************************************************)
(* Odds ingestion and notification pipeline of game-watcher:               *)
(*   collectors/betting/collector.py  BettingOddsCollector                 *)
(*   utils/database.py                DatabaseManager (betting_odds,       *)
(*                                    webhook_config)                      *)
(*   utils/webhook.py                 WebhookDelivery                      *)
(*   utils/betting_scheduler.py       BettingOddsScheduler                 *)
(*                                                                         *)
(* The module holds one group of variables per component and one           *)
(* specification per component; a specification leaves the variables of    *)
(* the other components unchanged.                                         *)
(*                                                                         *)
(* Units.  Prices are decimal odds in tenths (25 is 2.5).  Times are in    *)
(* half seconds (4 is 2 s), so that the 0.5 s jitter bound is one unit.    *)
(***************************************************************************)
EXTENDS Integers, Sequences, FiniteSets, TLC

VARIABLES
    \* ---- OddsNormalizer: one provider event being parsed
    event,          \* the raw provider event: [home_team, away_team, bookmakers]
    parsed,         \* result of _parse_single_event(event), or NotParsed
    raw_data,       \* the bodies the provider has: per sport, in key order, its payload
                    \* (what response.json() gives, and the argument of parse_events)
    parse_return,   \* what parse_events(raw_data) came to, or NoRecord
    \* ---- Store: the betting_odds table and one insert_betting_odds call
    betting_odds,   \* committed table: [rows (in rowid order), seq (sqlite_sequence)]
    tx,             \* the open connection's view of the table, or NoTx
    cur_batch,      \* the records of odds_data the loop has gone through so far; for
                    \* a call on a connection of writers, its argument odds_data
    inserted_count, \* inserted_count of the call in progress
    last_count,     \* what the last finished call returned, or None
    db_clock,       \* CURRENT_TIMESTAMP, in whole seconds
    n_writes,       \* INSERT OR REPLACE statements executed so far
    last_odds,      \* the record of the last statement that succeeded, or None
    replaced,       \* the row that statement displaced, or None
    lookup_return,  \* the last get_odds_for_event call: [sport, participants, result]
    list_return,    \* the last get_all_betting_odds call: [sport, limit, result]
    writers,        \* insert_betting_odds calls on connections of their own, the
                    \* insert_events call on its connection, and the connection
                    \* that holds the write lock of the database file (a thread of
                    \* calls, a thread of a cycle, "events" or None):
                    \* [lock, calls, events]
    \* ---- NotificationDispatcher: table webhook_config and one WebhookDelivery
    webhook_config, \* the table: [rows (in rowid order), seq]
    hook_pc,        \* "idle", "loop" (inside send_new_events' for loop) or "done"
    hook_events,    \* the events argument of the send_new_events call
    hook_configs,   \* webhook_configs, as read at the start of the call
    hook_i,         \* index in hook_configs of the subscription being delivered to
    hook_attempt,   \* attempt (0-based) of the delivery in progress
    hook_results,   \* results
    hook_successes, \* successful_deliveries
    hook_return,    \* what the last send_new_events call returned, or NoRecord
    hook_called,    \* names _deliver_to_webhook was called with in this call
    net_posts,      \* every requests.post made so far: [url, mode]
    test_return,    \* the last test_webhook call: [url, result], or NoRecord
    guard_return,   \* the last _is_safe_webhook_url call: [url, result], or NoRecord
    post_count,     \* requests.post calls of the delivery in progress (or, between
                    \* two deliveries, of the last one)
    last_post,      \* what the last of them came to, or NoPost
    sport_events,   \* the table events of DatabaseManager: [rows (in rowid order), seq]
    \* ---- FetchClient: one BettingOddsCollector
    api_key,            \* whether ODDS_API_KEY is set
    proxy_list,         \* self.proxy_list
    current_proxy_index,\* self.current_proxy_index
    last_request_time,  \* self.last_request_time of every collector of the process
    sleep_until,        \* when the time.sleep in progress (of _rate_limit or of a pass
                        \* of the retry loop) ends
    time_now,           \* time.time()
    fetch_pc,           \* "idle", "next" (top of the loop over the sports),
                        \* "rate_limit" (inside _rate_limit, before its store), "attempt"
                        \* (top of the retry loop), "retry_sleep" (inside the time.sleep
                        \* of a pass) or "returned" (_make_request is back)
    fetch_mode,         \* who called _make_request: "cycle" (fetch_raw_data) or "direct"
    fetch_i,            \* index in Sports of the sport being fetched
    req_use_proxy,      \* use_proxy of the request in progress
    req_proxies,        \* proxies of the request in progress
    req_attempt,        \* attempt of the request in progress
    req_trace,          \* the requests.get calls and time.sleep calls of the request
    req_return,         \* what _make_request came to, or NoRecord
    all_odds,           \* all_odds of the fetch_raw_data call
    requested,          \* the sports _make_request was called for in this call
    cycle_log,          \* per sport of this call, what its request came to
    fetch_return,       \* what the last fetch_raw_data call returned, or NoRecord
    prev_call,          \* when the previous requests.get began, or NoRecord
    n_requests,         \* _make_request calls so far
    gate,               \* the BettingOddsCollector instances of one process and the
                        \* threads inside their _rate_limit: [threads, begins]
    collect_return,     \* what the last BettingOddsService.collect_betting_odds call
                        \* returned, with what its pass produced and wrote, or NoRecord
    collect_call,       \* the fetch_raw_data call of the collect_betting_odds call in
                        \* progress: [pc, i, attempt, wake, stored], or NoFetchCall
    provider,           \* what the fetch_raw_data calls of the scheduler and of the
                        \* service meet: for every requests.get, in the order they are
                        \* made, the jitter of the _rate_limit before it, the time it
                        \* takes and how it can end: [script, rest]
    \* ---- CollectionScheduler: one BettingOddsScheduler, the threads that call
    \* ---- start() and stop(), and the pool threads of its BackgroundScheduler
    env_api_key,        \* whether os.getenv('ODDS_API_KEY') gives a value
    is_running,         \* self.is_running
    scheduler,          \* self.scheduler: [running, job, job_adds, pool_shutdown]
    caller_pc,          \* per calling thread: "idle", "first_cycle", "start_scheduler",
                        \* "set_running" (inside start()) or "shutdown" (inside stop())
    cycle,              \* per thread: the collect_and_notify call it executes (its
                        \* stage, its fetch_raw_data call, parsed_odds, the connection
                        \* of its insert_betting_odds call, inserted), or NoCycle
    n_cycles,           \* collect_and_notify calls so far
    first_cycle,        \* per calling thread inside start(): how its cycle ended
    last_call,          \* the start() or stop() call that returned last, or NoRecord
    last_cycle,         \* the collect_and_notify call that ended last, or NoRecord
    last_fire           \* the last firing of the interval trigger, or NoRecord

oddsVars  == <<event, parsed, raw_data, parse_return>>
storeVars == <<betting_odds, tx, cur_batch, inserted_count, last_count, db_clock,
               n_writes, last_odds, replaced, lookup_return, list_return, writers>>
hookVars  == <<webhook_config, hook_pc, hook_events, hook_configs, hook_i, hook_attempt,
               hook_results, hook_successes, hook_return, hook_called, net_posts,
               test_return, guard_return,
               post_count, last_post, sport_events>>
fetchVars == <<api_key, proxy_list, current_proxy_index, last_request_time, sleep_until,
               time_now, fetch_pc,
               fetch_mode, fetch_i, req_use_proxy, req_proxies, req_attempt, req_trace,
               req_return, all_odds, requested, cycle_log, fetch_return, prev_call,
               n_requests, gate, collect_return, collect_call, provider>>
schedVars == <<env_api_key, is_running, scheduler, caller_pc, cycle, n_cycles, first_cycle,
               last_call, last_cycle, last_fire>>
vars      == <<oddsVars, storeVars, hookVars, fetchVars, schedVars>>


(***************************************************************************)
(* OddsNormalizer: collectors/betting/collector.py                         *)
(***************************************************************************)
\* Python's None, where a string is expected
None == "None"
\* no record, no row, no return value yet
NoRecord == [none |-> TRUE]
NotParsed == [parsed |-> FALSE]

\* Bound of the provider event that is parsed: its bookmakers, markets and
\* outcomes together
MaxPayload == 6

BookmakerTitles == {"B1", "B2"}
MarketKeys == {"h2h", "spreads"}
\* Outcomes of a payload.  The 'price' field is absent (<<>>) or holds decimal odds
\* in tenths.
PayloadOutcomes ==
    {[name |-> "Team A", price |-> p] : p \in {<<>>, <<25>>, <<27>>}}
    \cup {[name |-> "Team B", price |-> <<27>>],
          [name |-> "Draw",   price |-> <<25>>],
          [name |-> "draw",   price |-> <<27>>],
          [name |-> "Over",   price |-> <<27>>]}
TeamNames == {"Team A", "Team B"}

\* str.lower() on the names of the model
Lower(name) ==
    CASE name \in {"Draw", "draw"} -> "draw"
      [] name = "Team A" -> "team a"
      [] name = "Team B" -> "team b"
      [] name = "Over" -> "over"
      [] OTHER -> name

\* round(x, 2) of x = num/den, in hundredths, ties to the even neighbour
RoundHundredths(num, den) ==
    LET q == (100 * num) \div den
        r == (100 * num) % den
    IN  IF 2 * r < den THEN q
        ELSE IF 2 * r > den THEN q + 1
        ELSE IF q % 2 = 0 THEN q ELSE q + 1

\* a bug: the probability is cut after two decimals, not rounded
ProbabilityTruncated(price) ==
    IF price > 0 THEN 100000 \div price ELSE 0

\* (1 / price * 100) if price > 0 else 0, then round(probability, 2);
\* price in tenths, result in hundredths of a percent
Probability(price) ==
    IF price > 0 THEN RoundHundredths(1000, price) ELSE 0

DefaultBest == [price |-> 0, bookmaker |-> None, probability |-> 0]

InitialBestOdds == [home |-> DefaultBest, away |-> DefaultBest, draw |-> DefaultBest]

\* a bug: only the lower-case spelling stands for the draw
OutcomeKeyExactDraw(name, home_team, away_team) ==
    IF name = home_team THEN "home"
    ELSE IF name = away_team THEN "away"
    ELSE IF name = "draw" THEN "draw"
    ELSE None

\* the if / elif chain that decides which outcome a name stands for
OutcomeKey(name, home_team, away_team) ==
    IF name = home_team THEN "home"
    ELSE IF name = away_team THEN "away"
    ELSE IF Lower(name) = "draw" THEN "draw"
    ELSE None

\* a bug: the entry is replaced whatever the price
UpdateBestKeepLast(best, bookmaker, outcome, home_team, away_team) ==
    LET k == OutcomeKey(outcome.name, home_team, away_team)
    IN  IF k = None THEN best
        ELSE [best EXCEPT ![k] = [price |-> outcome.price, bookmaker |-> bookmaker,
                                  probability |-> Probability(outcome.price)]]

\* a bug: a price equal to the best one replaces it
UpdateBestLaterTie(best, bookmaker, outcome, home_team, away_team) ==
    LET k == OutcomeKey(outcome.name, home_team, away_team)
    IN  IF k # None /\ outcome.price > 0 /\ outcome.price >= best[k].price
        THEN [best EXCEPT ![k] = [price |-> outcome.price, bookmaker |-> bookmaker,
                                  probability |-> Probability(outcome.price)]]
        ELSE best

\* the body of the inner loop: one outcome of one head-to-head market
UpdateBest(best, bookmaker, outcome, home_team, away_team) ==
    LET name == outcome.name
        price == outcome.price
        probability == Probability(price)
        k == OutcomeKey(name, home_team, away_team)
    IN  IF k # None /\ price > best[k].price
        THEN [best EXCEPT ![k] = [price |-> price, bookmaker |-> bookmaker,
                                  probability |-> probability]]
        ELSE best

RECURSIVE FoldOutcomes(_, _, _, _, _, _)
FoldOutcomes(best, bookmaker, outcomes, i, home_team, away_team) ==
    IF i > Len(outcomes) THEN best
    ELSE FoldOutcomes(UpdateBest(best, bookmaker, outcomes[i], home_team, away_team),
                      bookmaker, outcomes, i + 1, home_team, away_team)

RECURSIVE FoldOdds(_, _, _, _, _)
FoldOdds(best, odds_data, i, home_team, away_team) ==
    IF i > Len(odds_data) THEN best
    ELSE IF odds_data[i].market # "h2h"
         THEN FoldOdds(best, odds_data, i + 1, home_team, away_team)
         ELSE FoldOdds(FoldOutcomes(best, odds_data[i].bookmaker, odds_data[i].outcomes,
                                    1, home_team, away_team),
                       odds_data, i + 1, home_team, away_team)

calculate_best_odds(odds_data, home_team, away_team) ==
    FoldOdds(InitialBestOdds, odds_data, 1, home_team, away_team)

\* outcome.get('name', ''), outcome.get('price', 0), outcome.get('point')
ParsedOutcome(outcome) ==
    [name  |-> outcome.name,
     price |-> IF outcome.price = <<>> THEN 0 ELSE outcome.price[1],
     point |-> outcome.point]

\* the market_odds entries of one bookmaker
MarketOdds(bookmaker) ==
    [m \in 1..Len(bookmaker.markets) |->
        [bookmaker |-> bookmaker.title,
         market    |-> bookmaker.markets[m].key,
         outcomes  |-> [o \in 1..Len(bookmaker.markets[m].outcomes) |->
                           ParsedOutcome(bookmaker.markets[m].outcomes[o])]]]

RECURSIVE CollectOdds(_, _)
CollectOdds(bookmakers, i) ==
    IF i > Len(bookmakers) THEN <<>>
    ELSE MarketOdds(bookmakers[i]) \o CollectOdds(bookmakers, i + 1)

parse_single_event(ev, sport) ==
    LET odds_data == CollectOdds(ev.bookmakers, 1)
    IN  [event_id        |-> ev.id,
         sport           |-> sport,
         commence_time   |-> ev.commence_time,
         home_team       |-> ev.home_team,
         away_team       |-> ev.away_team,
         participants    |-> <<ev.home_team, ev.away_team>>,
         odds_data       |-> odds_data,
         best_odds       |-> calculate_best_odds(odds_data, ev.home_team, ev.away_team),
         bookmaker_count |-> Len(ev.bookmakers)]


(***************************************************************************)
(* The normalizer as a state machine: the provider composes one event      *)
(* entry (bookmakers, their markets, their outcomes), then                 *)
(* _parse_single_event is applied to it.                                   *)
(***************************************************************************)
OddsSport == "nfl"

RECURSIVE CountOutcomes(_, _)
CountOutcomes(odds_data, i) ==
    IF i > Len(odds_data) THEN 0
    ELSE Len(odds_data[i].outcomes) + CountOutcomes(odds_data, i + 1)

\* number of bookmakers, markets and outcomes of an event
PayloadSize(ev) ==
    LET odds_data == CollectOdds(ev.bookmakers, 1)
    IN  Len(ev.bookmakers) + Len(odds_data) + CountOutcomes(odds_data, 1)

OddsInit ==
    /\ \E a \in TeamNames :
          event = [id |-> "e1", commence_time |-> "T2", home_team |-> "Team A", away_team |-> a,
                   bookmakers |-> <<>>]
    /\ parsed = NotParsed
    /\ raw_data = <<>>
    /\ parse_return = NoRecord

\* the normalizer at rest, in the specifications of the other components
OddsIdle ==
    /\ event = [id |-> "e1", commence_time |-> "T2", home_team |-> "Team A",
                away_team |-> "Team B", bookmakers |-> <<>>]
    /\ parsed = NotParsed
    /\ raw_data = <<>>
    /\ parse_return = NoRecord

ProviderAddsBookmaker ==
    /\ parsed = NotParsed
    /\ PayloadSize(event) < MaxPayload
    /\ \E t \in BookmakerTitles :
          event' = [event EXCEPT !.bookmakers = Append(@, [title |-> t, markets |-> <<>>])]
    /\ UNCHANGED <<parsed, raw_data, parse_return, storeVars, hookVars, fetchVars, schedVars>>

ProviderAddsMarket ==
    /\ parsed = NotParsed
    /\ Len(event.bookmakers) > 0
    /\ PayloadSize(event) < MaxPayload
    /\ LET b == Len(event.bookmakers) IN
          /\ \E k \in MarketKeys :
                event' = [event EXCEPT !.bookmakers[b].markets =
                              Append(@, [key |-> k, outcomes |-> <<>>])]
    /\ UNCHANGED <<parsed, raw_data, parse_return, storeVars, hookVars, fetchVars, schedVars>>

ProviderAddsOutcome ==
    /\ parsed = NotParsed
    /\ Len(event.bookmakers) > 0
    /\ PayloadSize(event) < MaxPayload
    /\ LET b == Len(event.bookmakers)
           m == Len(event.bookmakers[b].markets)
       IN  /\ m > 0
           /\ \E o \in PayloadOutcomes :
                 event' = [event EXCEPT !.bookmakers[b].markets[m].outcomes =
                               Append(@, [name |-> o.name, price |-> o.price,
                                          point |-> IF event.bookmakers[b].markets[m].key = "h2h"
                                                    THEN None ELSE "1.5"])]
    /\ UNCHANGED <<parsed, raw_data, parse_return, storeVars, hookVars, fetchVars, schedVars>>

ParseSingleEvent ==
    /\ parsed = NotParsed
    /\ parsed' = parse_single_event(event, OddsSport)
    /\ UNCHANGED <<event, raw_data, parse_return, storeVars, hookVars, fetchVars, schedVars>>

OddsNext ==
    \/ ProviderAddsBookmaker
    \/ ProviderAddsMarket
    \/ ProviderAddsOutcome
    \/ ParseSingleEvent


(***************************************************************************)
(* Store: utils/database.py, table betting_odds                            *)
(*   UNIQUE(event_id, sport, commence_time), id INTEGER PRIMARY KEY        *)
(*   AUTOINCREMENT, created_at / scraped_at DEFAULT CURRENT_TIMESTAMP      *)
(***************************************************************************)
NoTx == [open |-> FALSE]

\* Bounds of the store
MaxWrites == 3
MaxClock == 1

\* json.dumps: the text of a value; json.loads undoes it
JsonDumps(v) == [json |-> v]
JsonLoads(t) == t.json

\* commence_time values are ISO texts; "T2" and "T3" stand for two of them
\* Provider events the stored records are parsed from: two payloads for each key
SampleBookmakers(variant) ==
    IF variant = 1
    THEN << [title |-> "B1", markets |-> << [key |-> "h2h", outcomes |->
                << [name |-> "Team A", price |-> <<25>>, point |-> None],
                   [name |-> "Team B", price |-> <<28>>, point |-> None] >>] >>] >>
    ELSE << [title |-> "B1", markets |-> << [key |-> "h2h", outcomes |->
                << [name |-> "Team A", price |-> <<25>>, point |-> None],
                   [name |-> "Team B", price |-> <<28>>, point |-> None] >>] >>],
            [title |-> "B2", markets |-> << [key |-> "h2h", outcomes |->
                << [name |-> "Team A", price |-> <<27>>, point |-> None],
                   [name |-> "Team B", price |-> <<27>>, point |-> None] >>] >>] >>

SampleEvent(id, commence_time, home_team, variant) ==
    [id |-> id, commence_time |-> commence_time, home_team |-> home_team,
     away_team |-> "Team B", bookmakers |-> SampleBookmakers(variant)]

\* Records a batch is made of.  The last one has "home_team": null in the payload,
\* which the NOT NULL constraint of the table refuses.
OddsRecords ==
    {parse_single_event(SampleEvent(k[1], k[2], "Team A", v), "nfl") :
        k \in {<<"e1", "T2">>, <<"e1", "T3">>}, v \in {1, 2}}
    \cup {parse_single_event(SampleEvent("e1", "T2", None, 1), "nfl")}

OddsKey(r) == <<r.event_id, r.sport, r.commence_time>>

RowsWithKey(rows, k) == {i \in 1..Len(rows) : OddsKey(rows[i]) = k}

KeepRows(rows, keep) == 
    LET F[i \in 0..Len(rows)] ==
            IF i = 0 THEN <<>>
            ELSE IF i \in keep THEN Append(F[i - 1], rows[i]) ELSE F[i - 1]
    IN  F[Len(rows)]

\* the row one INSERT statement builds from its parameters
NewRow(id, odds, now) ==
    [id              |-> id,
     event_id        |-> odds.event_id,
     sport           |-> odds.sport,
     commence_time   |-> odds.commence_time,
     home_team       |-> odds.home_team,
     away_team       |-> odds.away_team,
     participants    |-> JsonDumps(odds.participants),
     odds_data       |-> JsonDumps(odds.odds_data),
     best_odds       |-> JsonDumps(odds.best_odds),
     bookmaker_count |-> odds.bookmaker_count,
     created_at      |-> now,
     scraped_at      |-> now]

\* a bug: a table whose columns lack NOT NULL
NothingViolates(odds) == FALSE

\* NOT NULL columns filled from the record
ViolatesNotNull(odds) ==
    \/ odds.event_id = None
    \/ odds.sport = None
    \/ odds.commence_time = None
    \/ odds.home_team = None
    \/ odds.away_team = None

\* a bug: a plain INSERT into a table without the UNIQUE constraint
PlainInsert(table, odds, now) ==
    [table EXCEPT !.rows = Append(table.rows, NewRow(table.seq + 1, odds, now)),
                  !.seq  = table.seq + 1]

\* a bug: INSERT OR IGNORE keeps the row the key already has
InsertOrIgnore(table, odds, now) ==
    IF \E i \in 1..Len(table.rows) : OddsKey(table.rows[i]) = OddsKey(odds)
    THEN table
    ELSE [table EXCEPT !.rows = Append(table.rows, NewRow(table.seq + 1, odds, now)),
                       !.seq  = table.seq + 1]

\* INSERT OR REPLACE: the rows in conflict on the UNIQUE key are deleted, then the
\* new row is inserted with the next AUTOINCREMENT id
\* a replacement that clears the sport of the record first
InsertOrReplaceSport(table, odds, now) ==
    LET kept == {i \in 1..Len(table.rows) : table.rows[i].sport # odds.sport}
    IN  [table EXCEPT !.rows = Append(KeepRows(table.rows, kept),
                                      NewRow(table.seq + 1, odds, now)),
                      !.seq  = table.seq + 1]

InsertOrReplace(table, odds, now) ==
    LET kept == {i \in 1..Len(table.rows) : OddsKey(table.rows[i]) # OddsKey(odds)}
    IN  [table EXCEPT !.rows = Append(KeepRows(table.rows, kept),
                                      NewRow(table.seq + 1, odds, now)),
                      !.seq  = table.seq + 1]

\* a bug: the row of the key is updated in place, its best_odds left as it was
InsertOrMerge(table, odds, now) ==
    LET old == RowsWithKey(table.rows, OddsKey(odds))
    IN  IF old = {} THEN InsertOrReplace(table, odds, now)
        ELSE [table EXCEPT !.rows =
                 [i \in 1..Len(table.rows) |->
                     IF i \in old
                     THEN [NewRow(table.rows[i].id, odds, now) EXCEPT
                              !.best_odds = table.rows[i].best_odds]
                     ELSE table.rows[i]]]

\* one INSERT OR REPLACE statement of a connection, on the table the connection
\* sees
ExecuteUpsert(table, odds, now) == InsertOrReplace(table, odds, now)

\* the threads that call insert_betting_odds at the same time, each on the
\* connection its call opens
Writers == {"a", "b"}

NoCall == [pc |-> "idle"]

\* an insert_betting_odds call after sqlite3.connect, before its first
\* statement: batch holds the records the loop has passed, written the places of
\* those whose statement wrote a row, table what the connection sees once it
\* has the write lock
NewCall == [pc |-> "loop", batch |-> <<>>, written |-> {}, table |-> [rows |-> <<>>, seq |-> 0]]

\* one pass of the loop of insert_betting_odds for the record odds, on the
\* connection of who, while lock says which connection holds the write lock of
\* the database file and committed is the table in the file.  Another holder
\* that keeps the lock beyond the timeout of the connection: the statement
\* raises sqlite3.OperationalError, which the except clause logs, and the
\* record is skipped.  Else the statement begins the transaction if none is
\* open, takes the lock and writes the row in the connection's view, or is
\* refused by a NOT NULL column; the lock is kept until the commit either way.
ExecuteStatement(call, odds, who, lock, committed, now) ==
    IF lock \notin {None, who}
    THEN [call |-> [call EXCEPT !.batch = Append(@, odds)], lock |-> lock]
    ELSE LET view == IF lock = who THEN call.table ELSE committed
         IN  [call |-> [pc |-> "loop",
                        batch |-> Append(call.batch, odds),
                        written |-> IF ViolatesNotNull(odds) THEN call.written
                                    ELSE call.written \cup {Len(call.batch) + 1},
                        table |-> IF ViolatesNotNull(odds) THEN view
                                  ELSE ExecuteUpsert(view, odds, now)],
              lock |-> who]

\* conn.commit(): the table of the file after it
CommittedTable(call, who, lock, committed) == IF lock = who THEN call.table ELSE committed

\* the write lock once the connection of who has committed or rolled back
LockReleased(who, lock) == IF lock = who THEN None ELSE lock

\* no call in progress, the database file unlocked
WritersRest == [lock |-> None, calls |-> [w \in Writers |-> NoCall], events |-> NoCall]

StoreInit ==
    /\ writers = WritersRest
    /\ betting_odds = [rows |-> <<>>, seq |-> 0]
    /\ tx = NoTx
    /\ cur_batch = <<>>
    /\ inserted_count = 0
    /\ last_count = NoRecord
    /\ db_clock = 0
    /\ n_writes = 0
    /\ last_odds = NoRecord
    /\ replaced = NoRecord
    /\ lookup_return = NoRecord
    /\ list_return = NoRecord

\* insert_betting_odds([]): returns 0 before a connection is opened
InsertEmptyBatch ==
    /\ tx = NoTx
    /\ last_count' = [value |-> 0]
    /\ cur_batch' = <<>>
    /\ UNCHANGED <<oddsVars, hookVars, fetchVars, schedVars, writers, lookup_return, list_return, betting_odds, tx, inserted_count, db_clock, n_writes, last_odds, replaced>>

\* insert_betting_odds(batch), batch not empty: the connection is opened
InsertBegin ==
    /\ tx = NoTx
    /\ n_writes < MaxWrites
    /\ tx' = [open |-> TRUE, rows |-> betting_odds.rows, seq |-> betting_odds.seq]
    /\ cur_batch' = <<>>
    /\ inserted_count' = 0
    /\ last_odds' = NoRecord
    /\ replaced' = NoRecord
    /\ UNCHANGED <<oddsVars, hookVars, fetchVars, schedVars, writers, lookup_return, list_return, betting_odds, last_count, db_clock, n_writes>>

\* one pass of the loop: the statement for the next record of the batch
InsertRow ==
    /\ tx # NoTx
    /\ n_writes < MaxWrites
    /\ \E odds \in OddsRecords :
          /\ cur_batch' = Append(cur_batch, odds)
          /\ IF ViolatesNotNull(odds)
             THEN \* sqlite3.IntegrityError, caught: the record is skipped
                  UNCHANGED <<tx, inserted_count, last_odds, replaced>>
             ELSE /\ tx' = InsertOrReplace(tx, odds, db_clock)
                  /\ inserted_count' = inserted_count + 1
                  /\ last_odds' = odds
                  /\ replaced' = LET old == RowsWithKey(tx.rows, OddsKey(odds))
                                 IN  IF old = {} THEN NoRecord
                                     ELSE tx.rows[CHOOSE i \in old : TRUE]
    /\ n_writes' = n_writes + 1
    /\ UNCHANGED <<oddsVars, hookVars, fetchVars, schedVars, writers, lookup_return, list_return, betting_odds, last_count, db_clock>>

\* conn.commit() after the loop, and the return of inserted_count
InsertCommit ==
    /\ tx # NoTx
    /\ Len(cur_batch) > 0
    /\ betting_odds' = [rows |-> tx.rows, seq |-> tx.seq]
    /\ tx' = NoTx
    /\ last_count' = [value |-> inserted_count]
    /\ UNCHANGED <<oddsVars, hookVars, fetchVars, schedVars, writers, lookup_return, list_return, cur_batch, inserted_count, db_clock, n_writes, last_odds, replaced>>

\* a second of wall-clock time passes
ClockTick ==
    /\ db_clock < MaxClock
    /\ db_clock' = db_clock + 1
    /\ UNCHANGED <<oddsVars, hookVars, fetchVars, schedVars, writers, lookup_return, list_return, betting_odds, tx, cur_batch, inserted_count, last_count, n_writes,
                   last_odds, replaced>>

\* insert_betting_odds(batch) of thread w, batch not empty: sqlite3.connect
WriterConnect ==
    \E w \in Writers :
        /\ writers.calls[w] = NoCall
        /\ tx = NoTx
        /\ writers' = [writers EXCEPT !.calls[w] =
                          [pc |-> "loop", batch |-> <<>>, written |-> {},
                           table |-> betting_odds]]
        /\ UNCHANGED <<betting_odds, tx, cur_batch, inserted_count, last_count, db_clock,
                       n_writes, last_odds, replaced, lookup_return, list_return>>
        /\ UNCHANGED <<oddsVars, hookVars, fetchVars, schedVars>>

\* one pass of the loop of thread w while no other connection holds the write
\* lock: the statement begins the transaction if none is open, takes the lock
\* and writes the row in the connection's view of the table, or is refused by a
\* NOT NULL column; the lock is kept until the commit either way
WriterInsert ==
    \E w \in Writers, odds \in OddsRecords :
        LET call == writers.calls[w]
            view == IF writers.lock = w THEN call.table ELSE betting_odds
        IN  /\ call.pc = "loop"
            /\ writers.lock \in {None, w}
            /\ n_writes < MaxWrites
            /\ writers' = [writers EXCEPT
                  !.lock = w,
                  !.calls[w] =
                      [pc |-> "loop", batch |-> Append(call.batch, odds),
                       written |-> IF ViolatesNotNull(odds) THEN call.written
                                   ELSE call.written \cup {Len(call.batch) + 1},
                       table |-> IF ViolatesNotNull(odds) THEN view
                                 ELSE ExecuteUpsert(view, odds, db_clock)]]
            /\ n_writes' = n_writes + 1
            /\ UNCHANGED <<betting_odds, tx, cur_batch, inserted_count, last_count, db_clock,
                           last_odds, replaced, lookup_return, list_return>>
            /\ UNCHANGED <<oddsVars, hookVars, fetchVars, schedVars>>

\* one pass of the loop of thread w while another connection holds the write
\* lock for longer than the connection's timeout: sqlite3.OperationalError
\* (database is locked), caught by the except clause; the record is skipped
WriterInsertLocked ==
    \E w \in Writers, odds \in OddsRecords :
        LET call == writers.calls[w]
        IN  /\ call.pc = "loop"
            /\ writers.lock \notin {None, w}
            /\ n_writes < MaxWrites
            /\ writers' = [writers EXCEPT !.calls[w].batch = Append(call.batch, odds)]
            /\ n_writes' = n_writes + 1
            /\ UNCHANGED <<betting_odds, tx, cur_batch, inserted_count, last_count, db_clock,
                           last_odds, replaced, lookup_return, list_return>>
            /\ UNCHANGED <<oddsVars, hookVars, fetchVars, schedVars>>

\* conn.commit() of thread w after its loop: the rows the connection wrote
\* become the table and the lock is released; the call returns its count
WriterCommit ==
    \E w \in Writers :
        LET call == writers.calls[w]
        IN  /\ call.pc = "loop"
            /\ Len(call.batch) > 0
            /\ betting_odds' = IF writers.lock = w THEN call.table ELSE betting_odds
            /\ writers' = [writers EXCEPT
                  !.lock = IF @ = w THEN None ELSE @,
                  !.calls[w] = [pc |-> "done", batch |-> call.batch,
                                written |-> call.written, table |-> call.table]]
            /\ UNCHANGED <<tx, cur_batch, inserted_count, last_count, db_clock,
                           n_writes, last_odds, replaced, lookup_return, list_return>>
            /\ UNCHANGED <<oddsVars, hookVars, fetchVars, schedVars>>

WritersNext ==
    \/ WriterConnect
    \/ WriterInsert
    \/ WriterInsertLocked
    \/ WriterCommit

StoreNext ==
    \/ InsertEmptyBatch
    \/ InsertBegin
    \/ InsertRow
    \/ InsertCommit
    \/ ClockTick

(***************************************************************************)
(* NotificationDispatcher: utils/webhook.py, and table webhook_config of   *)
(* utils/database.py (name UNIQUE, enabled BOOLEAN)                        *)
(***************************************************************************)
\* Bound of the subscriptions: add_webhook_config calls
MaxConfigAdds == 2

\* self.retry_count
RetryCount == 3

\* A URL text, as its scheme and the dot-separated labels of its host (<<>>: no
\* host), both in the letter case they were written in
UrlExample   == [scheme |-> "https", host |-> <<"example", "com">>]
UrlLocalhost == [scheme |-> "HTTP",  host |-> <<"LocalHost">>]
UrlPrivate   == [scheme |-> "http",  host |-> <<"192", "168", "1", "5">>]

WebhookUrls == {UrlExample, UrlLocalhost, UrlPrivate}
WebhookNames == {"w1", "w2"}

\* str.lower() on the schemes and host labels of the model
LowerText(t) ==
    CASE t = "HTTP" -> "http"
      [] t = "HTTPS" -> "https"
      [] t = "LocalHost" -> "localhost"
      [] t = "LOCALHOST" -> "localhost"
      [] OTHER -> t

\* urllib.parse.urlparse: scheme and hostname come back in lower case
urlparse(url) ==
    [scheme   |-> LowerText(url.scheme),
     hostname |-> [i \in 1..Len(url.host) |-> LowerText(url.host[i])]]

\* a bug: the hostname is compared with the prefix less its last dot
StartsWithLabelsExact(hostname, labels) == hostname = labels

\* hostname.startswith(prefix), the prefix being labels each followed by a dot
StartsWithLabels(hostname, labels) ==
    /\ Len(hostname) > Len(labels)
    /\ \A i \in 1..Len(labels) : hostname[i] = labels[i]

PrivateSecondLabels ==
    {"16", "17", "18", "19", "20", "21", "22", "23", "24", "25", "26", "27", "28",
     "29", "30", "31"}

is_safe_webhook_url(url) ==
    LET parsed_url == urlparse(url)
        hostname == parsed_url.hostname
    IN  IF parsed_url.scheme \notin {"http", "https"} THEN FALSE
        ELSE IF hostname = <<>> THEN FALSE
        ELSE IF hostname \in {<<"localhost">>, <<"127", "0", "0", "1">>,
                              <<"0", "0", "0", "0">>, <<"::1">>} THEN FALSE
        ELSE IF \/ StartsWithLabels(hostname, <<"10">>)
                \/ StartsWithLabels(hostname, <<"192", "168">>)
                \/ \E l \in PrivateSecondLabels : StartsWithLabels(hostname, <<"172", l>>)
             THEN FALSE
        ELSE TRUE

\* a bug: _deliver_to_webhook without its guard
DeliveryAllowedUnguarded(url) == TRUE

\* the guard at the head of _deliver_to_webhook
DeliveryAllowed(url) == is_safe_webhook_url(url)

\* the guard at the head of test_webhook
TestAllowed(url) == is_safe_webhook_url(url)

\* get_webhook_configs: SELECT ... WHERE enabled = TRUE, in rowid order
get_webhook_configs(table) ==
    KeepRows(table.rows, {i \in 1..Len(table.rows) : table.rows[i].enabled})

\* INSERT OR REPLACE INTO webhook_config (name, url, enabled)
AddConfigRow(table, name, url, enabled) ==
    LET kept == {i \in 1..Len(table.rows) : table.rows[i].name # name}
    IN  [rows |-> Append(KeepRows(table.rows, kept),
                         [id |-> table.seq + 1, name |-> name, url |-> url,
                          enabled |-> enabled]),
         seq  |-> table.seq + 1]

\* What one requests.post can come to: a response with a status code, a timeout,
\* another requests exception, or an exception that is no RequestException
PostOutcomes ==
    {[kind |-> "status", code |-> c] : c \in {200, 204, 500}}
    \cup {[kind |-> "timeout"], [kind |-> "request_error"], [kind |-> "exception"]}

SuccessCodes == {200, 201, 202, 204}

\* no requests.post made yet
NoPost == [kind |-> "none"]

\* f"HTTP {response.status_code}"
HttpErrorText(code) ==
    CASE code = 500 -> "HTTP 500"
      [] code = 404 -> "HTTP 404"
      [] OTHER -> "HTTP"

EventLists == {<<>>, <<"ev1">>, <<"ev1", "ev2">>}

\* a bug: a delivery gives up after its second requests.post
RetryPostOnce(attempt) == attempt < 1

\* if attempt < self.retry_count - 1: continue
RetryPost(attempt) == attempt < RetryCount - 1

\* a bug: the call succeeds only when every delivery succeeded
OverallSuccessAll(successful_deliveries, total) == successful_deliveries = total

\* "success": successful_deliveries > 0
OverallSuccess(successful_deliveries, total) == successful_deliveries > 0

\* a bug: the loop over the subscriptions ends at the first failed delivery
NextConfigStopOnFailure(i, n, success) == IF success THEN i + 1 ELSE n + 1

\* the for loop over webhook_configs goes on to the next subscription
NextConfig(i, n, success) == i + 1

\* the dispatcher at rest
HookRest ==
    /\ sport_events = [rows |-> <<>>, seq |-> 0]
    /\ hook_pc = "idle"
    /\ hook_events = <<>>
    /\ hook_configs = <<>>
    /\ hook_i = 0
    /\ hook_attempt = 0
    /\ hook_results = <<>>
    /\ hook_successes = 0
    /\ hook_return = NoRecord
    /\ hook_called = {}
    /\ net_posts = {}
    /\ test_return = NoRecord
    /\ guard_return = NoRecord
    /\ post_count = 0
    /\ last_post = NoPost

HookInit ==
    /\ webhook_config = [rows |-> <<>>, seq |-> 0]
    /\ HookRest

\* add_webhook_config(name, url, enabled), between two dispatches, while no
\* other connection holds the write lock of the database file: the statement
\* and the commit.  hook_pc is "done" only as long as the table is the one the
\* last dispatch read.
AddWebhookConfig ==
    /\ hook_pc # "loop"
    /\ writers.lock = None
    /\ webhook_config.seq < MaxConfigAdds
    /\ \E name \in WebhookNames, url \in WebhookUrls, enabled \in BOOLEAN :
          webhook_config' = AddConfigRow(webhook_config, name, url, enabled)
    /\ hook_pc' = "idle"
    /\ UNCHANGED <<hook_events, hook_configs, hook_i, hook_attempt, hook_results,
                   hook_successes, hook_return, hook_called, net_posts, test_return, guard_return,
                   post_count, last_post>>
    /\ UNCHANGED <<sport_events, oddsVars, storeVars, fetchVars, schedVars>>

\* send_new_events(events) up to its for loop
SendNewEvents ==
    /\ hook_pc # "loop"
    /\ \E events \in EventLists :
          /\ hook_events' = events
          /\ LET configs == get_webhook_configs(webhook_config) IN
             IF events = <<>>
             THEN /\ hook_return' = [success |-> TRUE, events_sent |-> 0,
                                     webhooks_notified |-> 0]
                  /\ hook_configs' = <<>>
                  /\ hook_pc' = "done"
                  /\ hook_i' = 0
             ELSE IF configs = <<>>
             THEN /\ hook_return' = [success |-> FALSE,
                                     error |-> "No webhook endpoints configured",
                                     events_sent |-> 0]
                  /\ hook_configs' = <<>>
                  /\ hook_pc' = "done"
                  /\ hook_i' = 0
             ELSE /\ hook_return' = NoRecord
                  /\ hook_configs' = configs
                  /\ hook_pc' = "loop"
                  /\ hook_i' = 1
    /\ hook_attempt' = 0
    /\ hook_results' = <<>>
    /\ hook_successes' = 0
    /\ hook_called' = {}
    /\ post_count' = 0
    /\ last_post' = NoPost
    /\ UNCHANGED <<webhook_config, net_posts, test_return, guard_return>>
    /\ UNCHANGED <<sport_events, oddsVars, storeVars, fetchVars, schedVars>>

\* the end of one _deliver_to_webhook call inside the loop: its result (or the
\* result built by the except clause) is appended and the loop goes on
FinishDelivery(result) ==
    /\ hook_results' = Append(hook_results, result)
    /\ hook_successes' = IF result.success THEN hook_successes + 1 ELSE hook_successes
    /\ hook_i' = NextConfig(hook_i, Len(hook_configs), result.success)
    /\ hook_attempt' = 0
    /\ hook_called' = hook_called \cup {hook_configs[hook_i].name}

\* _deliver_to_webhook on a URL the guard refuses
DeliverRejected ==
    /\ hook_pc = "loop"
    /\ hook_i <= Len(hook_configs)
    /\ hook_attempt = 0
    /\ ~DeliveryAllowed(hook_configs[hook_i].url)
    /\ FinishDelivery([webhook |-> hook_configs[hook_i].name,
                       url |-> hook_configs[hook_i].url,
                       success |-> FALSE,
                       error |-> "Invalid or unsafe webhook URL",
                       attempts |-> 0])
    /\ post_count' = 0
    /\ last_post' = NoPost
    /\ UNCHANGED <<webhook_config, hook_pc, hook_events, hook_configs, hook_return,
                   net_posts, test_return, guard_return>>
    /\ UNCHANGED <<sport_events, oddsVars, storeVars, fetchVars, schedVars>>

\* one pass of the retry loop of _deliver_to_webhook: one requests.post
DeliverAttempt ==
    /\ hook_pc = "loop"
    /\ hook_i <= Len(hook_configs)
    /\ hook_attempt < RetryCount
    /\ DeliveryAllowed(hook_configs[hook_i].url)
    /\ LET name == hook_configs[hook_i].name
           url == hook_configs[hook_i].url
           attempt == hook_attempt
       IN  \E out \in PostOutcomes :
            IF out.kind = "exception"
            THEN \* raised before anything is sent; caught in send_new_events
                 /\ FinishDelivery([webhook |-> name, url |-> url, success |-> FALSE,
                                    error |-> "exception"])
                 /\ post_count' = IF attempt = 0 THEN 0 ELSE post_count
                 /\ last_post' = IF attempt = 0 THEN NoPost ELSE last_post
                 /\ UNCHANGED net_posts
            ELSE /\ net_posts' = net_posts \cup {[url |-> url, mode |-> "dispatch"]}
                 /\ post_count' = IF attempt = 0 THEN 1 ELSE post_count + 1
                 /\ last_post' = out
                 /\ IF out.kind = "status" /\ out.code \in SuccessCodes
                    THEN FinishDelivery([webhook |-> name, url |-> url, success |-> TRUE,
                                         status_code |-> out.code, attempt |-> attempt + 1])
                    ELSE IF RetryPost(attempt)
                    THEN /\ hook_attempt' = attempt + 1
                         /\ UNCHANGED <<hook_results, hook_successes, hook_i, hook_called>>
                    ELSE IF out.kind = "status"
                    THEN FinishDelivery([webhook |-> name, url |-> url, success |-> FALSE,
                                         status_code |-> out.code,
                                         error |-> HttpErrorText(out.code),
                                         attempts |-> attempt + 1])
                    ELSE IF out.kind = "timeout"
                    THEN FinishDelivery([webhook |-> name, url |-> url, success |-> FALSE,
                                         error |-> "Timeout", attempts |-> attempt + 1])
                    ELSE FinishDelivery([webhook |-> name, url |-> url, success |-> FALSE,
                                         error |-> "request_error",
                                         attempts |-> attempt + 1])
    /\ UNCHANGED <<webhook_config, hook_pc, hook_events, hook_configs, hook_return,
                   test_return, guard_return>>
    /\ UNCHANGED <<sport_events, oddsVars, storeVars, fetchVars, schedVars>>

\* the return of send_new_events after the loop
SendReturn ==
    /\ hook_pc = "loop"
    /\ hook_i > Len(hook_configs)
    /\ hook_return' = [success |-> OverallSuccess(hook_successes, Len(hook_configs)),
                       events_sent |-> Len(hook_events),
                       webhooks_notified |-> hook_successes,
                       total_webhooks |-> Len(hook_configs),
                       results |-> hook_results]
    /\ hook_pc' = "done"
    /\ UNCHANGED <<webhook_config, hook_events, hook_configs, hook_i, hook_attempt,
                   hook_results, hook_successes, hook_called, net_posts, test_return, guard_return,
                   post_count, last_post>>
    /\ UNCHANGED <<sport_events, oddsVars, storeVars, fetchVars, schedVars>>

\* test_webhook(url)
TestWebhook ==
    /\ hook_pc # "loop"
    /\ \E url \in WebhookUrls :
          IF ~TestAllowed(url)
          THEN /\ test_return' = [url |-> url, result |-> FALSE]
               /\ UNCHANGED net_posts
          ELSE \E out \in PostOutcomes :
                 /\ net_posts' = IF out.kind = "exception" THEN net_posts
                                 ELSE net_posts \cup {[url |-> url, mode |-> "test"]}
                 /\ test_return' = [url |-> url,
                                    result |-> out.kind = "status" /\ out.code \in SuccessCodes]
    /\ UNCHANGED <<webhook_config, hook_pc, hook_events, hook_configs, hook_i, hook_attempt,
                   hook_results, hook_successes, hook_return, hook_called, guard_return,
                   post_count,
                   last_post>>
    /\ UNCHANGED <<sport_events, oddsVars, storeVars, fetchVars, schedVars>>

\* URLs the guard is asked about: five schemes and, as hosts, none, the names
\* and addresses the guard lists, public names, prefixes without a dot after
\* them, and dotted quads inside and outside the private ranges
GuardUrls ==
    LET quads == {<<a, b, "1", "5">> :
                     a \in {"8", "10", "11", "172", "192"},
                     b \in {"0", "15", "16", "20", "31", "32", "168"}}
        hosts == quads \cup
                 {<<>>, <<"localhost">>, <<"LocalHost">>, <<"127", "0", "0", "1">>,
                  <<"0", "0", "0", "0">>, <<"::1">>, <<"example", "com">>,
                  <<"10", "example", "com">>, <<"10">>, <<"192", "168">>,
                  <<"172", "16">>, <<"127", "0", "0", "2">>}
    IN  {[scheme |-> sch, host |-> h] :
            sch \in {"http", "https", "HTTP", "ftp", "file"}, h \in hosts}

\* _is_safe_webhook_url(url)
CheckUrl ==
    /\ \E url \in GuardUrls :
          guard_return' = [url |-> url, result |-> is_safe_webhook_url(url)]
    /\ UNCHANGED <<webhook_config, hook_pc, hook_events, hook_configs, hook_i, hook_attempt,
                   hook_results, hook_successes, hook_return, hook_called, net_posts,
                   test_return, post_count, last_post>>
    /\ UNCHANGED <<sport_events, oddsVars, storeVars, fetchVars, schedVars>>

HookNext ==
    \/ AddWebhookConfig
    \/ SendNewEvents
    \/ DeliverRejected
    \/ DeliverAttempt
    \/ SendReturn
    \/ TestWebhook

(***************************************************************************)
(* FetchClient: collectors/betting/collector.py                            *)
(***************************************************************************)
\* Bound of the fetch client: _make_request calls
MaxRequests == 2

\* The time one requests.get can take (half seconds)
Durations == {0, 1}

\* self.min_request_interval: 2 s
MinRequestInterval == 4
\* random.uniform(0, 0.5): at most 0.5 s
MaxJitter == 1
\* max_retries
MaxRetries == 3

\* sport_mapping, cut to its first two entries, in mapping order
Sports == <<"futbol", "nfl">>

ProxyLists == {<<>>, <<"P1", "P2">>}

\* What one requests.get can come to: a 200 whose JSON is a list of events, a 200
\* whose JSON is an empty list, a 200 whose JSON is null (or a number or a
\* boolean: a value without a length), a 200 whose body is no JSON, a 429,
\* another status, a requests exception (timeout included), another exception
RequestOutcomes ==
    {"ok", "ok_empty", "ok_null", "bad_json", "status_429", "status_500", "request_error",
     "exception"}

Status200 == {"ok", "ok_empty", "ok_null", "bad_json"}

\* the 200s whose response.json() returns: line 200 stores what it returns
JsonBodies == {"ok", "ok_empty", "ok_null"}

\* the 200s on which a statement after response.json() raises: len(odds_data)
\* of line 201, on a value without a length
RaisesAfterStore == {"ok_null"}

RECURSIVE Pow2(_)
Pow2(n) == IF n = 0 THEN 1 ELSE 2 * Pow2(n - 1)

\* time.sleep((attempt + 1) * 5), in half seconds
RateLimitedWait(attempt) == (attempt + 1) * 10

\* a bug: the wait after a transport error does not grow
BackoffFixed(attempt) == 2

\* time.sleep(2 ** attempt), in half seconds
BackoffWait(attempt) == 2 * Pow2(attempt)

\* a bug: the gate never sleeps
RateLimitSleepNever(time_since_last, jitter) == 0

\* the sleep of _rate_limit, given the time since the last request
RateLimitSleep(time_since_last, jitter) ==
    IF time_since_last < MinRequestInterval
    THEN (MinRequestInterval - time_since_last) + jitter
    ELSE 0

\* a bug: the rotation index is not advanced
get_next_proxy_stuck(list, index) ==
    IF list = <<>>
    THEN [proxy |-> None, index |-> index]
    ELSE [proxy |-> list[index + 1], index |-> index]

\* _get_next_proxy: the proxy it returns and the index it leaves
get_next_proxy(list, index) ==
    IF list = <<>>
    THEN [proxy |-> None, index |-> index]
    ELSE [proxy |-> list[index + 1], index |-> (index + 1) % Len(list)]

\* response.json()
ResponseJson(body) ==
    IF body = "ok" THEN <<"e1">> ELSE IF body = "ok_null" THEN None ELSE <<>>

\* a bug: the retry loop makes one pass more
RetryLoopOneMore(attempt) == attempt + 1 < MaxRetries + 1

\* for attempt in range(max_retries): whether a pass follows the pass of attempt
RetryLoopContinues(attempt) == attempt + 1 < MaxRetries

\* a bug: an exception or a failure for one sport ends the loop over the sports
SportLoopAbortOnFailure(i, n, failed) == IF failed THEN n + 1 ELSE i + 1

\* the for loop over sport_mapping goes on to the next sport, also after the
\* except clause
SportLoopNext(i, n, failed) == i + 1

\* the collectors of one process: the scheduler's (betting_scheduler.py:34) and
\* the API service's (api/services.py:219), and the threads that call them
Clients == {"scheduler", "service"}
GateThreads == {"g1", "g2"}

\* Bound of the clock of the specification of the collectors of one process
MaxGateTime == 10

\* the collector whose calls the fetch client component follows
FetchClient == "scheduler"

\* one requests.get of a fetch_raw_data call: the jitter random.uniform gives
\* the _rate_limit before it, the time the call takes, and the ways it can end
ProviderAnswer(jitter, took, outs) == [jitter |-> jitter, took |-> took, outs |-> outs]

\* a provider that answers every call at once, with events or with a status 500
PromptProvider ==
    [script |-> <<>>, rest |-> ProviderAnswer(0, 0, {"ok", "status_500"})]

\* a provider whose first answer, after half a second, is a 429, and whose
\* calls all follow a _rate_limit with the full jitter
BusyProvider ==
    [script |-> <<ProviderAnswer(1, 1, {"status_429"})>>,
     rest |-> ProviderAnswer(1, 0, {"ok", "status_500"})]

\* what the next requests.get meets
NextAnswer(p) == IF p.script = <<>> THEN p.rest ELSE Head(p.script)

\* the provider after that call
AnswerTaken(p) == IF p.script = <<>> THEN p ELSE [p EXCEPT !.script = Tail(@)]

\* no fetch_raw_data call in progress
NoFetchCall == [pc |-> "idle"]

\* a fetch_raw_data call at the top of its loop, before the first sport: pc is
\* "next" (top of the loop over the sports), "rate_limit" (inside _rate_limit,
\* before its store), "attempt" (top of the retry loop), "retry_sleep" (inside
\* the time.sleep of a pass) or "returned"
FetchCallBegin == [pc |-> "next", i |-> 1, attempt |-> 0, wake |-> 0, stored |-> {}]

\* no thread in a call
GateRest ==
    [threads |-> [th \in GateThreads |-> [pc |-> "idle", client |-> None, wake |-> 0]],
     begins  |-> <<>>]

\* a process whose collectors have made no request, with the providers it can
\* meet
FetchInitWith(providers) ==
    /\ api_key \in BOOLEAN
    /\ gate = GateRest
    /\ collect_return = NoRecord
    /\ collect_call = NoFetchCall
    /\ provider \in providers
    /\ proxy_list \in ProxyLists
    /\ current_proxy_index = 0
    \* every collector after __init__
    /\ last_request_time = [c \in Clients |-> 0]
    /\ sleep_until = 0
    \* time.time() is far beyond min_request_interval when the process starts
    /\ time_now = MinRequestInterval
    /\ fetch_pc = "idle"
    /\ fetch_mode = "none"
    /\ fetch_i = 0
    /\ req_use_proxy = FALSE
    /\ req_proxies = None
    /\ req_attempt = 0
    /\ req_trace = <<>>
    /\ req_return = NoRecord
    /\ all_odds = <<>>
    /\ requested = <<>>
    /\ cycle_log = <<>>
    /\ fetch_return = NoRecord
    /\ prev_call = NoRecord
    /\ n_requests = 0

FetchInit == FetchInitWith({PromptProvider})

\* the fetch client at rest, in the specifications of the other components
FetchIdle ==
    /\ FetchInit
    /\ api_key = TRUE
    /\ proxy_list = <<>>

\* the collector of a scheduler that was started, before its first request
FetchOfScheduler ==
    /\ FetchInitWith({PromptProvider, BusyProvider})
    /\ api_key = TRUE
    /\ proxy_list = <<>>

\* _make_request up to the time.sleep of _rate_limit: the clock and
\* last_request_time are read and the sleep is worked out
EnterMakeRequest(use_proxy) ==
    /\ \E jitter \in 0..MaxJitter :
          LET sleep_time == RateLimitSleep(time_now - last_request_time[FetchClient], jitter)
          IN  sleep_until' = time_now + sleep_time
    /\ req_use_proxy' = use_proxy
    /\ req_attempt' = 0
    /\ req_trace' = <<>>
    /\ req_return' = NoRecord
    /\ fetch_pc' = "rate_limit"
    /\ UNCHANGED <<time_now, last_request_time, req_proxies, current_proxy_index, n_requests>>

\* the sleep is over: _rate_limit stores time.time() in last_request_time and
\* returns, and _make_request takes the first proxy
RateLimitStore ==
    /\ fetch_pc = "rate_limit"
    /\ LET woke == IF time_now < sleep_until THEN sleep_until ELSE time_now
       IN  /\ time_now' = woke
           /\ last_request_time' = [last_request_time EXCEPT ![FetchClient] = woke]
    /\ LET next == get_next_proxy(proxy_list, current_proxy_index)
       IN  IF req_use_proxy
           THEN req_proxies' = next.proxy /\ current_proxy_index' = next.index
           ELSE req_proxies' = None /\ UNCHANGED current_proxy_index
    /\ n_requests' = n_requests + 1
    /\ fetch_pc' = "attempt"
    /\ UNCHANGED <<api_key, proxy_list, sleep_until, fetch_mode, fetch_i, req_use_proxy,
                   req_attempt, req_trace, req_return, all_odds, requested, cycle_log,
                   fetch_return, prev_call>>
    /\ UNCHANGED <<gate, collect_return, collect_call, provider, oddsVars, storeVars, hookVars, schedVars>>

\* a bug: the credential is taken to be there
ApiKeyAssumed(key) == TRUE

\* "if not self.api_key" of fetch_raw_data, negated
ApiKeyConfigured(key) == key

\* fetch_raw_data without the credential
FetchRawDataDisabled ==
    /\ fetch_pc = "idle"
    /\ ~ApiKeyConfigured(api_key)
    /\ fetch_return' = [kind |-> "none"]
    /\ fetch_mode' = "cycle"
    /\ all_odds' = <<>>
    /\ requested' = <<>>
    /\ cycle_log' = <<>>
    /\ UNCHANGED <<api_key, proxy_list, current_proxy_index, last_request_time, time_now,
                   fetch_pc, fetch_i, req_use_proxy, req_proxies, req_attempt, req_trace,
                   req_return, prev_call, n_requests>>
    /\ UNCHANGED <<gate, collect_return, collect_call, provider, sleep_until, oddsVars, storeVars, hookVars, schedVars>>

\* fetch_raw_data with the credential, up to its loop
FetchRawDataBegin ==
    /\ fetch_pc = "idle"
    /\ ApiKeyConfigured(api_key)
    /\ n_requests + Len(Sports) <= MaxRequests
    /\ fetch_mode' = "cycle"
    /\ all_odds' = <<>>
    /\ requested' = <<>>
    /\ cycle_log' = <<>>
    /\ fetch_return' = NoRecord
    /\ fetch_i' = 1
    /\ fetch_pc' = "next"
    /\ UNCHANGED <<api_key, proxy_list, current_proxy_index, last_request_time, time_now,
                   req_use_proxy, req_proxies, req_attempt, req_trace, req_return,
                   prev_call, n_requests>>
    /\ UNCHANGED <<gate, collect_return, collect_call, provider, sleep_until, oddsVars, storeVars, hookVars, schedVars>>

\* the top of the loop over the sports: the request for the next sport
FetchNextSport ==
    /\ fetch_pc = "next"
    /\ fetch_i <= Len(Sports)
    /\ requested' = Append(requested, Sports[fetch_i])
    /\ EnterMakeRequest(FALSE)
    /\ UNCHANGED <<api_key, proxy_list, fetch_mode, fetch_i, all_odds, cycle_log,
                   fetch_return, prev_call>>
    /\ UNCHANGED <<gate, collect_return, collect_call, provider, oddsVars, storeVars, hookVars, schedVars>>

\* _make_request called on its own, with or without proxy rotation
DirectRequest ==
    /\ fetch_pc = "idle"
    /\ n_requests < MaxRequests
    /\ fetch_mode' = "direct"
    /\ \E use_proxy \in BOOLEAN : EnterMakeRequest(use_proxy)
    /\ UNCHANGED <<api_key, proxy_list, fetch_i, all_odds, requested, cycle_log,
                   fetch_return, prev_call>>
    /\ UNCHANGED <<gate, collect_return, collect_call, provider, oddsVars, storeVars, hookVars, schedVars>>

\* the request goes round its loop once more: the next pass of the for loop, or
\* None when the loop is exhausted
RetryAfter(rotate) ==
    /\ req_attempt' = req_attempt + 1
    /\ LET next == get_next_proxy(proxy_list, current_proxy_index)
       IN  IF rotate
           THEN req_proxies' = next.proxy /\ current_proxy_index' = next.index
           ELSE UNCHANGED <<req_proxies, current_proxy_index>>
    /\ IF RetryLoopContinues(req_attempt)
       THEN fetch_pc' = "attempt" /\ UNCHANGED req_return
       ELSE \* the for loop is exhausted: return None
            fetch_pc' = "returned" /\ req_return' = [kind |-> "none"]

\* the request calls time.sleep(wait) at the time now
SleepBegins(trace, wait, now) ==
    /\ req_trace' = Append(trace, [op |-> "sleep", units |-> wait])
    /\ sleep_until' = now + wait
    /\ fetch_pc' = "retry_sleep"
    /\ UNCHANGED <<req_attempt, req_proxies, current_proxy_index, req_return>>

\* the request returns result
ReturnFromRequest(trace, result) ==
    /\ req_trace' = trace
    /\ req_return' = result
    /\ fetch_pc' = "returned"
    /\ UNCHANGED <<req_attempt, req_proxies, current_proxy_index, sleep_until>>

\* one pass of the retry loop of _make_request up to its time.sleep: one
\* requests.get and what follows from its outcome
MakeAttempt ==
    /\ fetch_pc = "attempt"
    /\ \E out \in RequestOutcomes, d \in Durations :
          LET trace == Append(req_trace, [op |-> "get", out |-> out])
          IN  /\ time_now' = time_now + d
              /\ CASE out \in Status200 ->
                        ReturnFromRequest(trace, [kind |-> "response", body |-> out])
                   [] out = "status_429" ->
                        SleepBegins(trace, RateLimitedWait(req_attempt), time_now + d)
                   [] out = "status_500" ->
                        IF req_attempt < MaxRetries - 1 /\ req_use_proxy
                        THEN /\ RetryAfter(TRUE)
                             /\ req_trace' = trace
                             /\ UNCHANGED sleep_until
                        ELSE ReturnFromRequest(trace, [kind |-> "none"])
                   [] out = "request_error" ->
                        IF req_attempt < MaxRetries - 1
                        THEN SleepBegins(trace, BackoffWait(req_attempt), time_now + d)
                        ELSE ReturnFromRequest(trace, [kind |-> "none"])
                   [] OTHER ->
                        \* an exception that is no RequestException leaves
                        \* _make_request
                        ReturnFromRequest(trace, [kind |-> "raised"])
    /\ prev_call' = [time |-> time_now]
    /\ UNCHANGED <<api_key, proxy_list, last_request_time, fetch_mode, fetch_i,
                   req_use_proxy, all_odds, requested, cycle_log, fetch_return, n_requests>>
    /\ UNCHANGED <<gate, collect_return, collect_call, provider, oddsVars, storeVars, hookVars, schedVars>>

\* the time.sleep of the pass is over: after a requests exception the next proxy
\* is taken when rotation is in use; then the loop goes on to its next pass, or
\* is exhausted
RetrySleepEnds ==
    /\ fetch_pc = "retry_sleep"
    /\ time_now' = IF time_now < sleep_until THEN sleep_until ELSE time_now
    /\ RetryAfter(req_use_proxy /\ req_trace[Len(req_trace) - 1].out = "request_error")
    /\ UNCHANGED <<api_key, proxy_list, last_request_time, sleep_until, fetch_mode, fetch_i,
                   req_use_proxy, req_trace, all_odds, requested, cycle_log, fetch_return,
                   prev_call, n_requests>>
    /\ UNCHANGED <<gate, collect_return, collect_call, provider, oddsVars, storeVars, hookVars, schedVars>>

\* fetch_raw_data after _make_request: the response is stored, or the failure
\* logged (in the else branch or in the except clause), or both: a JSON value
\* without a length is stored by line 200 before line 201 raises
HandleResponse ==
    /\ fetch_pc = "returned"
    /\ fetch_mode = "cycle"
    /\ LET sport == Sports[fetch_i]
           stored == req_return.kind = "response" /\ req_return.body \in JsonBodies
           what == IF req_return.kind = "response" THEN req_return.body ELSE req_return.kind
       IN  /\ all_odds' = IF stored
                          THEN [s \in DOMAIN all_odds \cup {sport} |->
                                   IF s = sport THEN ResponseJson(req_return.body)
                                   ELSE all_odds[s]]
                          ELSE all_odds
           /\ cycle_log' = Append(cycle_log, [sport |-> sport, result |-> what])
           /\ fetch_i' = SportLoopNext(fetch_i, Len(Sports),
                                       ~stored \/ req_return.body \in RaisesAfterStore)
    /\ fetch_pc' = "next"
    /\ UNCHANGED <<api_key, proxy_list, current_proxy_index, last_request_time, time_now,
                   fetch_mode, req_use_proxy, req_proxies, req_attempt, req_trace,
                   req_return, requested, fetch_return, prev_call, n_requests>>
    /\ UNCHANGED <<gate, collect_return, collect_call, provider, sleep_until, oddsVars, storeVars, hookVars, schedVars>>

\* the return of fetch_raw_data after its loop
FetchReturn ==
    /\ fetch_pc = "next"
    /\ fetch_i > Len(Sports)
    /\ fetch_return' = IF DOMAIN all_odds # {} THEN [kind |-> "data", odds |-> all_odds]
                       ELSE [kind |-> "none"]
    /\ fetch_pc' = "idle"
    /\ UNCHANGED <<api_key, proxy_list, current_proxy_index, last_request_time, time_now,
                   fetch_mode, fetch_i, req_use_proxy, req_proxies, req_attempt, req_trace,
                   req_return, all_odds, requested, cycle_log, prev_call, n_requests>>
    /\ UNCHANGED <<gate, collect_return, collect_call, provider, sleep_until, oddsVars, storeVars, hookVars, schedVars>>

\* the caller of a _make_request made on its own has its result
DirectReturn ==
    /\ fetch_pc = "returned"
    /\ fetch_mode = "direct"
    /\ fetch_pc' = "idle"
    /\ UNCHANGED <<api_key, proxy_list, current_proxy_index, last_request_time, time_now,
                   fetch_mode, fetch_i, req_use_proxy, req_proxies, req_attempt, req_trace,
                   req_return, all_odds, requested, cycle_log, fetch_return, prev_call,
                   n_requests>>
    /\ UNCHANGED <<gate, collect_return, collect_call, provider, sleep_until, oddsVars, storeVars, hookVars, schedVars>>

\* thread th calls _make_request on collector c: _rate_limit reads the clock and
\* the collector's last_request_time and goes to sleep, or needs no sleep
GateEnter ==
    \E th \in GateThreads, c \in Clients, jitter \in 0..MaxJitter :
        /\ gate.threads[th].pc = "idle"
        /\ n_requests < MaxRequests
        /\ LET sleep_time == RateLimitSleep(time_now - last_request_time[c], jitter)
           IN  gate' = [gate EXCEPT !.threads[th] =
                          [pc |-> "sleeping", client |-> c, wake |-> time_now + sleep_time]]
        /\ n_requests' = n_requests + 1
        /\ UNCHANGED <<api_key, proxy_list, current_proxy_index, last_request_time,
                       sleep_until, time_now,
                       fetch_pc, fetch_mode, fetch_i, req_use_proxy, req_proxies,
                       req_attempt, req_trace, req_return, all_odds, requested, cycle_log,
                       fetch_return, prev_call, collect_return, collect_call, provider>>
        /\ UNCHANGED <<oddsVars, storeVars, hookVars, schedVars>>

\* the sleep of thread th is over: _rate_limit stores the time in the collector's
\* last_request_time and returns, and the request goes out
GateLeave ==
    \E th \in GateThreads :
        /\ gate.threads[th].pc = "sleeping"
        /\ time_now >= gate.threads[th].wake
        /\ LET c == gate.threads[th].client
               begin == [client |-> c, thread |-> th, time |-> time_now]
           IN  /\ gate' = [gate EXCEPT
                          !.threads[th] = [pc |-> "idle", client |-> None, wake |-> 0],
                          !.begins = IF Len(@) = 2 THEN <<@[2], begin>> ELSE Append(@, begin)]
               /\ last_request_time' = [last_request_time EXCEPT ![c] = time_now]
        /\ UNCHANGED <<api_key, proxy_list, current_proxy_index, sleep_until, time_now,
                       fetch_pc, fetch_mode, fetch_i, req_use_proxy, req_proxies,
                       req_attempt, req_trace, req_return, all_odds, requested, cycle_log,
                       fetch_return, prev_call, n_requests, collect_return, collect_call, provider>>
        /\ UNCHANGED <<oddsVars, storeVars, hookVars, schedVars>>

\* half a second goes by
GateClockTick ==
    /\ time_now < MaxGateTime
    /\ time_now' = time_now + 1
    /\ UNCHANGED <<api_key, proxy_list, current_proxy_index, last_request_time, sleep_until,
                   fetch_pc, fetch_mode, fetch_i, req_use_proxy, req_proxies,
                   req_attempt, req_trace, req_return, all_odds, requested, cycle_log,
                   fetch_return, prev_call, n_requests, gate, collect_return, collect_call, provider>>
    /\ UNCHANGED <<oddsVars, storeVars, hookVars, schedVars>>

\* the threads of the process next to a _make_request of the fetch client, up
\* to its first requests.get
GateNext ==
    \/ GateEnter
    \/ GateLeave
    \/ GateClockTick
    \/ DirectRequest
    \/ RateLimitStore

\* _make_request(url, params) of the call for its next sport, up to the
\* time.sleep of _rate_limit on collector c: the clock and last_request_time are
\* read and the sleep is worked out
CallRateLimit(call, c) ==
    [call EXCEPT !.pc = "rate_limit",
                 !.attempt = 0,
                 !.wake = time_now + RateLimitSleep(time_now - last_request_time[c],
                                                    NextAnswer(provider).jitter)]

\* time.time() when the sleep of _rate_limit is over
RateLimitWoke(call) == IF time_now < call.wake THEN call.wake ELSE time_now

\* the time.sleep that follows a requests.get of _make_request(url, params) which
\* ended with out: (attempt + 1) * 5 seconds after a 429, 2 ** attempt seconds
\* after a transport error that is not the last pass, none otherwise
AttemptWait(out, attempt) ==
    CASE out = "status_429" -> RateLimitedWait(attempt)
      [] out = "request_error" /\ attempt < MaxRetries - 1 -> BackoffWait(attempt)
      [] OTHER -> 0

\* the call when the request for its sport is over with out: the response is
\* stored in all_odds if response.json() returned, and the loop goes on to the
\* next sport, or the call returns
CallSportDone(call, out) ==
    [pc |-> IF call.i < Len(Sports) THEN "next" ELSE "returned",
     i |-> SportLoopNext(call.i, Len(Sports), out \notin {"ok", "ok_empty"}),
     attempt |-> 0,
     wake |-> 0,
     stored |-> IF out \in JsonBodies THEN call.stored \cup {Sports[call.i]}
                ELSE call.stored]

\* the call after the requests.get that ended with out at time now: it is in
\* the time.sleep of the retry loop (pc "retry_sleep"), or the request is over
CallAttempt(call, out, now) ==
    IF AttemptWait(out, call.attempt) > 0
    THEN [call EXCEPT !.pc = "retry_sleep",
                      !.wake = now + AttemptWait(out, call.attempt)]
    ELSE CallSportDone(call, out)

\* the call after the time.sleep of the retry loop: the next pass, or after the
\* last pass _make_request returns None
CallWoke(call) ==
    IF RetryLoopContinues(call.attempt)
    THEN [call EXCEPT !.pc = "attempt", !.attempt = @ + 1, !.wake = 0]
    ELSE CallSportDone(call, "none")

FetchNext ==
    \/ FetchRawDataDisabled
    \/ FetchRawDataBegin
    \/ FetchNextSport
    \/ DirectRequest
    \/ RateLimitStore
    \/ MakeAttempt
    \/ RetrySleepEnds
    \/ HandleResponse
    \/ FetchReturn
    \/ DirectReturn

(***************************************************************************)
(* parse_events: the provider's payloads of one fetch, keyed by sport, and *)
(* one call of parse_events on them.                                       *)
(***************************************************************************)
\* Bound of the entries of all payloads of raw_data together
MaxEntries == 3

\* event.get(key, '') and event.get('bookmakers', []) on an object without keys
EmptyEvent ==
    [id |-> "", commence_time |-> "", home_team |-> "", away_team |-> "",
     bookmakers |-> <<>>]

\* an event object as the provider documents it, with one bookmaker
FullEvent(id) ==
    [id |-> id, commence_time |-> "T2", home_team |-> "Team A", away_team |-> "Team B",
     bookmakers |-> <<[title |-> "B1",
                       markets |-> <<[key |-> "h2h",
                                      outcomes |-> <<[name |-> "Team A", price |-> <<25>>,
                                                      point |-> None]>>]>>]>>]

\* Entries of a payload: a JSON object (with the event keys or without any key,
\* and with 'bookmakers' a list or null), or a JSON string.  In this order: two
\* event objects, {}, an event object with "bookmakers": null, and a string.
PayloadEntries ==
    {[kind |-> "dict", present |-> TRUE, bookmakers_null |-> FALSE, ev |-> FullEvent("e1")],
     [kind |-> "dict", present |-> TRUE, bookmakers_null |-> FALSE, ev |-> FullEvent("e2")],
     [kind |-> "dict", present |-> FALSE, bookmakers_null |-> FALSE, ev |-> EmptyEvent],
     [kind |-> "dict", present |-> TRUE, bookmakers_null |-> TRUE,
      ev |-> [FullEvent("e3") EXCEPT !.bookmakers = <<>>]],
     [kind |-> "string", present |-> FALSE, bookmakers_null |-> FALSE, ev |-> EmptyEvent]}

\* What response.json() may give for one sport before entries are added: an
\* empty list, null, a number, or an object with one key (iterating it gives
\* the key, a string).
NewPayloads ==
    {[kind |-> "list", items |-> <<>>],
     [kind |-> "null", items |-> <<>>],
     [kind |-> "number", items |-> <<>>],
     [kind |-> "object",
      items |-> <<[kind |-> "string", present |-> FALSE, bookmakers_null |-> FALSE,
                   ev |-> EmptyEvent]>>]}

\* How the sport loop takes a payload: "falsy" (None, [] and {}: skipped),
\* "iterable" (a list or an object with content), or "raises" (the number of
\* the model, 5, is truthy and 'for event in sport_odds' cannot iterate it)
PayloadClass(payload) ==
    IF payload.kind = "number" THEN "raises"
    ELSE IF payload.kind \in {"list", "object"} /\ payload.items # <<>> THEN "iterable"
    ELSE "falsy"

\* _parse_single_event(event, sport) with its try/except: None when the body
\* raises (event.get on a string: AttributeError; 'for bookmaker in None':
\* TypeError), else the record
parse_entry(entry, sport) ==
    IF entry.kind # "dict" \/ entry.bookmakers_null THEN NotParsed
    ELSE parse_single_event(IF entry.present THEN entry.ev ELSE EmptyEvent, sport)

\* the inner loop of parse_events: 'if odds_entry: parsed_odds.append(odds_entry)'
RECURSIVE ParseEntries(_, _, _)
ParseEntries(items, i, sport) ==
    IF i > Len(items) THEN <<>>
    ELSE LET odds_entry == parse_entry(items[i], sport)
         IN  (IF odds_entry = NotParsed THEN <<>> ELSE <<odds_entry>>)
                \o ParseEntries(items, i + 1, sport)

\* the outer loop of parse_events, which is under no try: a truthy payload that
\* cannot be iterated raises TypeError out of parse_events
RECURSIVE ParseSports(_, _, _)
ParseSports(raw, i, parsed_odds) ==
    IF i > Len(raw) THEN [raised |-> FALSE, value |-> parsed_odds]
    ELSE IF PayloadClass(raw[i].payload) = "falsy" THEN ParseSports(raw, i + 1, parsed_odds)
    ELSE IF PayloadClass(raw[i].payload) = "raises" THEN [raised |-> TRUE, value |-> <<>>]
    ELSE ParseSports(raw, i + 1,
                     parsed_odds \o ParseEntries(raw[i].payload.items, 1, raw[i].sport))

parse_events(raw) ==
    IF raw = <<>> THEN [raised |-> FALSE, value |-> <<>>]
    ELSE ParseSports(raw, 1, <<>>)

RECURSIVE CountEntries(_, _)
CountEntries(raw, i) ==
    IF i > Len(raw) THEN 0
    ELSE Len(raw[i].payload.items) + CountEntries(raw, i + 1)

\* all_odds[sport_name] = response.json(): the next sport gets its payload
ProviderAddsPayload ==
    /\ parse_return = NoRecord
    /\ collect_call = NoFetchCall
    /\ Len(raw_data) < Len(Sports)
    /\ \E payload \in NewPayloads :
          /\ CountEntries(raw_data, 1) + Len(payload.items) <= MaxEntries
          /\ raw_data' = Append(raw_data, [sport |-> Sports[Len(raw_data) + 1],
                                           payload |-> payload])
    /\ UNCHANGED <<event, parsed, parse_return, storeVars, hookVars, fetchVars, schedVars>>

\* the list payload of the last sport gets one more entry
ProviderAddsEntry ==
    /\ parse_return = NoRecord
    /\ collect_call = NoFetchCall
    /\ Len(raw_data) > 0
    /\ raw_data[Len(raw_data)].payload.kind = "list"
    /\ CountEntries(raw_data, 1) < MaxEntries
    /\ \E entry \in PayloadEntries :
          raw_data' = [raw_data EXCEPT ![Len(raw_data)].payload.items = Append(@, entry)]
    /\ UNCHANGED <<event, parsed, parse_return, storeVars, hookVars, fetchVars, schedVars>>

\* parse_events(raw_data)
ParseEvents ==
    /\ parse_return = NoRecord
    /\ parse_return' = parse_events(raw_data)
    /\ UNCHANGED <<event, parsed, raw_data, storeVars, hookVars, fetchVars, schedVars>>

\* validate_event: the required fields, then the types and the date;
\* the values of the model have the types asked for
validate_event(ev) ==
    IF \E field \in {"sport", "date", "event", "participants", "location"} :
          field \notin DOMAIN ev
    THEN FALSE
    ELSE ev.date \in {"T1", "T2", "T3"}

\* BaseDataCollector.fetch_events on what fetch_raw_data returned: the parsed
\* events that pass validate_event, or [] when parse_events raises
fetch_events(raw) ==
    LET events == parse_events(raw)
    IN  IF events.raised THEN <<>> ELSE SelectSeq(events.value, validate_event)

\* insert_betting_odds(odds) with one record, a dict, in the place of the list:
\* the loop runs over the keys of the dict, odds.get on a key (a str) raises
\* AttributeError, which the except clause logs; nothing is written
insert_betting_odds_dict(table, odds, now) ==
    [table |-> table, inserted_count |-> 0]

\* the outcome of a 200 with the JSON body payload
BodyOutcome(payload) ==
    IF payload.kind \in {"null", "number"} THEN "ok_null"
    ELSE IF payload.items = <<>> THEN "ok_empty"
    ELSE "ok"

\* the payloads raw_data holds for sport
BodiesOf(sport) == {raw_data[k].payload : k \in {j \in 1..Len(raw_data) : raw_data[j].sport = sport}}

\* how the next requests.get of the service's call can end for sport: raw_data
\* holds the bodies the provider has, so a 200 with JSON carries the body of the
\* sport, and a sport without a body is answered with a failure
ProviderOuts(sport) ==
    LET outs == NextAnswer(provider).outs
        fails == outs \ JsonBodies
    IN  IF BodiesOf(sport) # {} /\ outs \cap JsonBodies # {}
        THEN fails \cup {BodyOutcome(body) : body \in BodiesOf(sport)}
        ELSE IF fails = {} THEN {"status_500"} ELSE fails

\* what fetch_raw_data returns to fetch_events: the bodies of the sports whose
\* response was stored, in the order of the mapping
FetchedData(stored) == SelectSeq(raw_data, LAMBDA entry : entry.sport \in stored)

\* an event object of a payload
EventEntry(ev) == [kind |-> "dict", present |-> TRUE, bookmakers_null |-> FALSE, ev |-> ev]

\* a list payload of a sport
ListBody(sport, items) == [sport |-> sport, payload |-> [kind |-> "list", items |-> items]]

\* a provider with one event for each of the two sports
EventPerSport ==
    <<ListBody("futbol", <<EventEntry(FullEvent("e2"))>>),
      ListBody("nfl", <<EventEntry(FullEvent("e1"))>>)>>

\* what the provider holds for the two sports while cycles run: one event
\* each; or no event for the first sport and two for the second, the first of
\* them with "home_team": null; or a number for the first sport
ProviderBodies ==
    {EventPerSport,
     <<ListBody("futbol", <<>>),
       ListBody("nfl", <<EventEntry([FullEvent("e1") EXCEPT !.home_team = None]),
                         EventEntry(FullEvent("e2"))>>)>>,
     <<[sport |-> "futbol", payload |-> [kind |-> "number", items |-> <<>>]],
       ListBody("nfl", <<EventEntry(FullEvent("e2"))>>)>>}

\* the normalizer at rest and the provider with its bodies, in the
\* specifications that run ingestion cycles
OddsWithBodies ==
    /\ event = [id |-> "e1", commence_time |-> "T2", home_team |-> "Team A",
                away_team |-> "Team B", bookmakers |-> <<>>]
    /\ parsed = NotParsed
    /\ raw_data \in ProviderBodies
    /\ parse_return = NoRecord

\* BettingOddsService.collect_betting_odds() once fetch_raw_data has returned
\* fetched: fetch_events() parses and validates it, then for each record
\* insert_betting_odds(record) and inserted += 1; neither call lets an exception
\* out, so the except clause of the service is never entered
CollectReturns(fetched) ==
    LET normalized == parse_events(fetched)
        odds_data == fetch_events(fetched)
        calls == [i \in 1..Len(odds_data) |->
                     insert_betting_odds_dict(betting_odds, odds_data[i], db_clock)]
        written == Cardinality({i \in 1..Len(odds_data) : calls[i].inserted_count > 0})
    IN  /\ collect_return' =
             [success |-> TRUE, odds_collected |-> Len(odds_data),
              odds_inserted |-> Len(odds_data),
              normalized |-> normalized.value, written |-> written]
        /\ betting_odds' = IF odds_data = <<>> THEN betting_odds
                           ELSE calls[Len(odds_data)].table
        /\ collect_call' = NoFetchCall

\* collect_betting_odds() up to the time.sleep of the _rate_limit for the next
\* sport of its fetch_raw_data, on the collector of the service; without the
\* credential fetch_raw_data returns None before any request and the call
\* returns
CollectRateLimit ==
    /\ collect_return = NoRecord
    /\ parse_return = NoRecord
    /\ collect_call.pc \in {"idle", "next"}
    /\ IF ApiKeyConfigured(api_key)
       THEN /\ collect_call' = CallRateLimit(IF collect_call = NoFetchCall
                                             THEN FetchCallBegin ELSE collect_call,
                                             "service")
            /\ UNCHANGED <<collect_return, betting_odds>>
       ELSE CollectReturns(<<>>)
    /\ UNCHANGED <<api_key, proxy_list, current_proxy_index, last_request_time, sleep_until,
                   time_now, fetch_pc, fetch_mode, fetch_i, req_use_proxy, req_proxies,
                   req_attempt, req_trace, req_return, all_odds, requested, cycle_log,
                   fetch_return, prev_call, n_requests, gate, provider>>
    /\ UNCHANGED <<tx, cur_batch, inserted_count, last_count, db_clock, n_writes,
                   last_odds, replaced, lookup_return, list_return, writers>>
    /\ UNCHANGED <<oddsVars, hookVars, schedVars>>

\* the sleep is over: _rate_limit stores time.time() in last_request_time of the
\* service's collector and returns
CollectRateLimitStore ==
    /\ collect_call.pc = "rate_limit"
    /\ time_now' = RateLimitWoke(collect_call)
    /\ last_request_time' =
          [last_request_time EXCEPT !["service"] = RateLimitWoke(collect_call)]
    /\ n_requests' = n_requests + 1
    /\ collect_call' = [collect_call EXCEPT !.pc = "attempt"]
    /\ UNCHANGED <<api_key, proxy_list, current_proxy_index, sleep_until, fetch_pc,
                   fetch_mode, fetch_i, req_use_proxy, req_proxies, req_attempt, req_trace,
                   req_return, all_odds, requested, cycle_log, fetch_return, prev_call,
                   gate, collect_return, provider>>
    /\ UNCHANGED <<oddsVars, storeVars, hookVars, schedVars>>

\* one requests.get of the retry loop of the request; when its outcome ends the
\* request of the last sport, fetch_raw_data returns and the call goes on to its
\* end
CollectAttempt ==
    /\ collect_call.pc = "attempt"
    /\ \E out \in ProviderOuts(Sports[collect_call.i]) :
          LET now == time_now + NextAnswer(provider).took
              call == CallAttempt(collect_call, out, now)
          IN  /\ time_now' = now
              /\ IF call.pc = "returned"
                 THEN CollectReturns(FetchedData(call.stored))
                 ELSE /\ collect_call' = call
                      /\ UNCHANGED <<collect_return, betting_odds>>
    /\ provider' = AnswerTaken(provider)
    /\ UNCHANGED <<api_key, proxy_list, current_proxy_index, last_request_time, sleep_until,
                   fetch_pc, fetch_mode, fetch_i, req_use_proxy, req_proxies, req_attempt,
                   req_trace, req_return, all_odds, requested, cycle_log, fetch_return,
                   prev_call, n_requests, gate>>
    /\ UNCHANGED <<tx, cur_batch, inserted_count, last_count, db_clock, n_writes,
                   last_odds, replaced, lookup_return, list_return, writers>>
    /\ UNCHANGED <<oddsVars, hookVars, schedVars>>

\* the time.sleep of the retry loop is over: the next pass, or after the last
\* pass the request has failed and the loop over the sports goes on
CollectRetrySleep ==
    /\ collect_call.pc = "retry_sleep"
    /\ time_now' = RateLimitWoke(collect_call)
    /\ LET call == CallWoke(collect_call)
       IN  IF call.pc = "returned"
           THEN CollectReturns(FetchedData(call.stored))
           ELSE /\ collect_call' = call
                /\ UNCHANGED <<collect_return, betting_odds>>
    /\ UNCHANGED <<api_key, proxy_list, current_proxy_index, last_request_time, sleep_until,
                   fetch_pc, fetch_mode, fetch_i, req_use_proxy, req_proxies, req_attempt,
                   req_trace, req_return, all_odds, requested, cycle_log, fetch_return,
                   prev_call, n_requests, gate, provider>>
    /\ UNCHANGED <<tx, cur_batch, inserted_count, last_count, db_clock, n_writes,
                   last_odds, replaced, lookup_return, list_return, writers>>
    /\ UNCHANGED <<oddsVars, hookVars, schedVars>>

\* providers the service can meet: the two of the scheduler, and one that is
\* slow and whose first call fails in transport
CollectProviders ==
    {PromptProvider,
     BusyProvider,
     [script |-> <<ProviderAnswer(0, 0, {"request_error"})>>,
      rest |-> ProviderAnswer(0, 1, {"ok", "exception"})]}

CollectNext ==
    \/ ProviderAddsPayload
    \/ ProviderAddsEntry
    \/ CollectRateLimit
    \/ CollectRateLimitStore
    \/ CollectAttempt
    \/ CollectRetrySleep

ParseNext ==
    \/ ProviderAddsPayload
    \/ ProviderAddsEntry
    \/ ParseEvents

(***************************************************************************)
(* CollectionScheduler: utils/betting_scheduler.py                         *)
(* self.scheduler is an APScheduler BackgroundScheduler: its interval       *)
(* trigger fires in the scheduler's own thread and submits the job to a    *)
(* pool of threads; shutdown() stops the triggers and waits for the pool.  *)
(***************************************************************************)
\* Bound of the scheduler: collect_and_notify calls
MaxCycles == 3

\* max_instances=1
MaxInstances == 1

\* the threads that call start() and stop() (the API process, at its startup
\* and shutdown), and the threads of the pool
Callers == DOMAIN caller_pc
Workers == {"p1", "p2"}
Threads == Callers \cup Workers

NoCycle == [running |-> FALSE]

\* a bug: the job runs whatever the number of its running instances
JobMayRunAlways(instances) == TRUE

\* the executor refuses a job that has max_instances instances running
JobMayRun(instances) == instances < MaxInstances

\* a bug: start() without its first check
AlreadyRunningIgnored(running) == FALSE

\* if self.is_running: return
AlreadyRunning(running) == running

\* a bug: start() without its check of the environment
CredentialAssumed(key) == TRUE

\* os.getenv('ODDS_API_KEY') is truthy
CredentialPresent(key) == key

\* a bug: stop() that only clears is_running
ShutdownSkipped(sched) == sched

\* self.scheduler.shutdown(): the state of the scheduler object once the call
\* has stopped its trigger thread
SchedulerShutdown(sched) == [sched EXCEPT !.running = FALSE]

\* a bug: start() returns without setting is_running
RunningAfterStartUnset == FALSE

\* self.is_running = True
RunningAfterStart == TRUE

\* a bug: collect_and_notify without its try/except lets the exception out
CycleExitUncaught(outcome) == IF outcome = "exception" THEN "raised" ELSE "returned"

\* how collect_and_notify comes back to its caller: the except clause logs
\* the exception and the call returns
CycleExit(outcome) == "returned"

\* a bug: the notification stage is entered whatever the count
NotifyAlways(inserted) == TRUE

\* if inserted > 0
NotifyWanted(inserted) == inserted > 0

\* the loop of insert_betting_odds(batch) on a table, from record i on: the
\* table it leaves and the count it returns; a record the table refuses is
\* skipped; times[i] is what CURRENT_TIMESTAMP gives the statement of record i
RECURSIVE InsertFrom(_, _, _, _)
InsertFrom(table, batch, i, times) ==
    IF i > Len(batch) THEN [table |-> table, inserted_count |-> 0]
    ELSE IF ViolatesNotNull(batch[i]) THEN InsertFrom(table, batch, i + 1, times)
    ELSE LET rest == InsertFrom(InsertOrReplace(table, batch[i], times[i]), batch, i + 1,
                                times)
         IN  [table |-> rest.table, inserted_count |-> rest.inserted_count + 1]

\* insert_betting_odds(batch) on a connection that meets no other, its
\* statements within the second now
insert_betting_odds(table, batch, now) ==
    InsertFrom(table, batch, 1, [i \in 1..Len(batch) |-> now])

\* webhook_config tables a scheduler can find
NoConfigs == [rows |-> <<>>, seq |-> 0]
OneConfig == AddConfigRow(NoConfigs, "w1", UrlExample, TRUE)
WebhookTables == {NoConfigs, OneConfig, AddConfigRow(OneConfig, "w2", UrlPrivate, FALSE)}

RunningInstances == {w \in Workers : cycle[w] # NoCycle}

\* the number of the last cycle a firing of the trigger has started
LastStarted == IF last_fire = NoRecord THEN 0 ELSE last_fire.started_cycle

\* a collect_and_notify call at its first statement
NewCycle(trigger, number) ==
    [running |-> TRUE, trigger |-> trigger, number |-> number, stage |-> "fetch",
     fetch |-> FetchCallBegin, parsed_odds |-> <<>>, conn |-> NoCall, inserted |-> 0]

\* a scheduler after __init__, with the threads callers to call it
SchedInitWith(callers) ==
    /\ env_api_key \in BOOLEAN
    /\ is_running = FALSE
    /\ scheduler = [running |-> FALSE, job |-> FALSE, job_adds |-> 0, pool_shutdown |-> FALSE]
    /\ caller_pc = [c \in callers |-> "idle"]
    /\ cycle = [th \in callers \cup Workers |-> NoCycle]
    /\ n_cycles = 0
    /\ first_cycle = [c \in callers |-> "none"]
    /\ last_call = NoRecord
    /\ last_cycle = NoRecord
    /\ last_fire = NoRecord

SchedInit == SchedInitWith({"t1"})

\* the scheduler at rest, in the specifications of the other components
SchedIdle ==
    /\ SchedInit
    /\ env_api_key = TRUE

\* start() on a scheduler whose is_running is set
StartAlreadyRunning ==
    \E c \in Callers :
        /\ caller_pc[c] = "idle"
        /\ AlreadyRunning(is_running)
        /\ last_call' = [op |-> "start", result |-> "already_running", first_cycle |-> "none"]
        /\ UNCHANGED <<env_api_key, is_running, scheduler, caller_pc, cycle, n_cycles,
                       first_cycle, last_cycle, last_fire>>
        /\ UNCHANGED <<oddsVars, storeVars, hookVars, fetchVars>>

\* start() without the credential
StartDisabled ==
    \E c \in Callers :
        /\ caller_pc[c] = "idle"
        /\ ~AlreadyRunning(is_running)
        /\ ~CredentialPresent(env_api_key)
        /\ last_call' = [op |-> "start", result |-> "disabled", first_cycle |-> "none"]
        /\ UNCHANGED <<env_api_key, is_running, scheduler, caller_pc, cycle, n_cycles,
                       first_cycle, last_cycle, last_fire>>
        /\ UNCHANGED <<oddsVars, storeVars, hookVars, fetchVars>>

\* start() up to its call of collect_and_notify: the two checks and add_job
StartBegin ==
    \E c \in Callers :
        /\ caller_pc[c] = "idle"
        /\ ~AlreadyRunning(is_running)
        /\ CredentialPresent(env_api_key)
        /\ n_cycles < MaxCycles
        /\ scheduler' = [scheduler EXCEPT !.job = TRUE, !.job_adds = @ + 1]
        /\ caller_pc' = [caller_pc EXCEPT ![c] = "first_cycle"]
        /\ cycle' = [cycle EXCEPT ![c] = NewCycle("immediate", n_cycles + 1)]
        /\ n_cycles' = n_cycles + 1
        /\ UNCHANGED <<env_api_key, is_running, first_cycle, last_call, last_cycle,
                       last_fire>>
        /\ UNCHANGED <<oddsVars, storeVars, hookVars, fetchVars>>

\* the end of the collect_and_notify call of thread th.  The call makes no
\* requests.post: its notification stage logs the payload.
EndCycle(th, outcome, stage, inserted, configs) ==
    /\ last_cycle' = [thread |-> th, trigger |-> cycle[th].trigger,
                      number |-> cycle[th].number, outcome |-> outcome,
                      stage |-> stage, inserted |-> inserted, configs |-> configs,
                      posts |-> <<>>, exit |-> CycleExit(outcome)]
    /\ cycle' = [cycle EXCEPT ![th] = NoCycle]
    /\ IF th \in Callers
       THEN IF CycleExit(outcome) = "returned"
            THEN /\ caller_pc' = [caller_pc EXCEPT ![th] = "start_scheduler"]
                 /\ first_cycle' = [first_cycle EXCEPT ![th] = outcome]
                 /\ UNCHANGED last_call
            ELSE \* the exception leaves start() as well
                 /\ caller_pc' = [caller_pc EXCEPT ![th] = "idle"]
                 /\ last_call' = [op |-> "start", result |-> "cycle_raised",
                                  first_cycle |-> outcome]
                 /\ UNCHANGED first_cycle
       ELSE UNCHANGED <<caller_pc, first_cycle, last_call>>

\* raw_data = self.collector.fetch_raw_data() of the cycle of thread th, up to
\* the time.sleep of the _rate_limit for its next sport; before the first sport
\* the call returns None without the credential, and the cycle ends; an
\* exception before the loop ends the cycle as well
CycleRateLimit ==
    \E th \in Threads :
        /\ cycle[th] # NoCycle
        /\ cycle[th].stage = "fetch"
        /\ cycle[th].fetch.pc = "next"
        /\ \/ /\ cycle[th].fetch.i = 1
              /\ ~ApiKeyConfigured(api_key)
              /\ EndCycle(th, "no_data", "fetch", 0, <<>>)
           \/ /\ cycle[th].fetch.i = 1
              /\ EndCycle(th, "exception", "fetch", 0, <<>>)
           \/ /\ ApiKeyConfigured(api_key)
              /\ cycle' = [cycle EXCEPT ![th].fetch = CallRateLimit(@, "scheduler")]
              /\ UNCHANGED <<caller_pc, first_cycle, last_call, last_cycle>>
        /\ UNCHANGED <<env_api_key, is_running, scheduler, n_cycles, last_fire>>
        /\ UNCHANGED <<oddsVars, storeVars, hookVars, fetchVars>>

\* the sleep is over: _rate_limit stores time.time() in last_request_time of the
\* scheduler's collector and returns
CycleRateLimitStore ==
    \E th \in Threads :
        /\ cycle[th] # NoCycle
        /\ cycle[th].stage = "fetch"
        /\ cycle[th].fetch.pc = "rate_limit"
        /\ time_now' = RateLimitWoke(cycle[th].fetch)
        /\ last_request_time' =
              [last_request_time EXCEPT !["scheduler"] = RateLimitWoke(cycle[th].fetch)]
        /\ n_requests' = n_requests + 1
        /\ cycle' = [cycle EXCEPT ![th].fetch.pc = "attempt"]
        /\ UNCHANGED <<env_api_key, is_running, scheduler, caller_pc, n_cycles, first_cycle,
                       last_call, last_cycle, last_fire>>
        /\ UNCHANGED <<api_key, proxy_list, current_proxy_index, sleep_until, fetch_pc,
                       fetch_mode, fetch_i, req_use_proxy, req_proxies, req_attempt,
                       req_trace, req_return, all_odds, requested, cycle_log, fetch_return,
                       prev_call, gate, collect_return, collect_call, provider>>
        /\ UNCHANGED <<oddsVars, storeVars, hookVars>>

\* the fetch of the cycle of thread th goes on with call: fetch_raw_data has
\* returned ('return all_odds if all_odds else None') and the cycle ends when
\* what it returns is empty ('if not raw_data: return'), or the call is at its
\* next step
CycleFetchGoesOn(th, call) ==
    CASE call.pc # "returned" ->
            /\ cycle' = [cycle EXCEPT ![th].fetch = call]
            /\ UNCHANGED <<caller_pc, first_cycle, last_call, last_cycle>>
      [] call.pc = "returned" /\ call.stored # {} ->
            /\ cycle' = [cycle EXCEPT ![th].stage = "parse", ![th].fetch = call]
            /\ UNCHANGED <<caller_pc, first_cycle, last_call, last_cycle>>
      [] OTHER -> EndCycle(th, "no_data", "fetch", 0, <<>>)

\* one requests.get of the retry loop of the request, with the outcomes the
\* provider has for the sport; when the outcome ends the request of the last
\* sport, fetch_raw_data returns
CycleAttempt ==
    \E th \in Threads :
        /\ cycle[th] # NoCycle
        /\ cycle[th].stage = "fetch"
        /\ cycle[th].fetch.pc = "attempt"
        /\ \E out \in ProviderOuts(Sports[cycle[th].fetch.i]) :
              LET now == time_now + NextAnswer(provider).took
              IN  /\ time_now' = now
                  /\ CycleFetchGoesOn(th, CallAttempt(cycle[th].fetch, out, now))
        /\ provider' = AnswerTaken(provider)
        /\ UNCHANGED <<env_api_key, is_running, scheduler, n_cycles, last_fire>>
        /\ UNCHANGED <<api_key, proxy_list, current_proxy_index, last_request_time,
                       sleep_until, fetch_pc, fetch_mode, fetch_i, req_use_proxy,
                       req_proxies, req_attempt, req_trace, req_return, all_odds, requested,
                       cycle_log, fetch_return, prev_call, n_requests, gate, collect_return,
                       collect_call>>
        /\ UNCHANGED <<oddsVars, storeVars, hookVars>>

\* the time.sleep of the retry loop is over: the next pass, or after the last
\* pass the request has failed and the loop over the sports goes on
CycleRetrySleep ==
    \E th \in Threads :
        /\ cycle[th] # NoCycle
        /\ cycle[th].stage = "fetch"
        /\ cycle[th].fetch.pc = "retry_sleep"
        /\ time_now' = RateLimitWoke(cycle[th].fetch)
        /\ CycleFetchGoesOn(th, CallWoke(cycle[th].fetch))
        /\ UNCHANGED <<env_api_key, is_running, scheduler, n_cycles, last_fire>>
        /\ UNCHANGED <<api_key, proxy_list, current_proxy_index, last_request_time,
                       sleep_until, fetch_pc, fetch_mode, fetch_i, req_use_proxy,
                       req_proxies, req_attempt, req_trace, req_return, all_odds, requested,
                       cycle_log, fetch_return, prev_call, n_requests, gate, collect_return,
                       collect_call, provider>>
        /\ UNCHANGED <<oddsVars, storeVars, hookVars>>

\* parsed_odds = self.collector.parse_events(raw_data) on what the fetch
\* returned: an exception leaves it for the except clause of the cycle, the
\* cycle returns when the list is empty, and else it goes on to the insert,
\* whose insert_betting_odds(parsed_odds) opens its connection
CycleParse ==
    \E th \in Threads :
        /\ cycle[th] # NoCycle
        /\ cycle[th].stage = "parse"
        /\ LET events == parse_events(FetchedData(cycle[th].fetch.stored))
           IN  CASE events.raised -> EndCycle(th, "exception", "parse", 0, <<>>)
                 [] ~events.raised /\ events.value = <<>> ->
                       EndCycle(th, "no_records", "parse", 0, <<>>)
                 [] OTHER ->
                       /\ cycle' = [cycle EXCEPT ![th].stage = "insert",
                                                 ![th].fetch = NoFetchCall,
                                                 ![th].parsed_odds = events.value,
                                                 ![th].conn = NewCall]
                       /\ UNCHANGED <<caller_pc, first_cycle, last_call, last_cycle>>
        /\ UNCHANGED <<env_api_key, is_running, scheduler, n_cycles, last_fire>>
        /\ UNCHANGED <<oddsVars, storeVars, hookVars, fetchVars>>

\* one pass of the loop of self.db.insert_betting_odds(parsed_odds): the
\* statement for the next record; sqlite3.connect may raise before the first
\* pass, which ends the cycle in its except clause
CycleInsert ==
    \E th \in Threads :
        /\ cycle[th] # NoCycle
        /\ cycle[th].stage = "insert"
        /\ Len(cycle[th].conn.batch) < Len(cycle[th].parsed_odds)
        /\ \/ LET odds == cycle[th].parsed_odds[Len(cycle[th].conn.batch) + 1]
                  done == ExecuteStatement(cycle[th].conn, odds, th, writers.lock,
                                           betting_odds, db_clock)
              IN  /\ cycle' = [cycle EXCEPT ![th].conn = done.call]
                  /\ writers' = [writers EXCEPT !.lock = done.lock]
                  /\ UNCHANGED <<caller_pc, first_cycle, last_call, last_cycle>>
           \/ /\ cycle[th].conn.batch = <<>>
              /\ EndCycle(th, "exception", "insert", 0, <<>>)
              /\ UNCHANGED writers
        /\ UNCHANGED <<env_api_key, is_running, scheduler, n_cycles, last_fire>>
        /\ UNCHANGED <<betting_odds, tx, cur_batch, inserted_count, last_count, db_clock,
                       n_writes, last_odds, replaced, lookup_return, list_return>>
        /\ UNCHANGED <<oddsVars, hookVars, fetchVars>>

\* conn.commit() after the loop and the return of the count of the statements
\* that wrote a row: the cycle ends when inserted is 0 and else goes on to the
\* notification; a commit that raises is rolled back and ends the cycle in its
\* except clause
CycleInsertCommit ==
    \E th \in Threads :
        /\ cycle[th] # NoCycle
        /\ cycle[th].stage = "insert"
        /\ Len(cycle[th].conn.batch) = Len(cycle[th].parsed_odds)
        /\ writers' = [writers EXCEPT !.lock = LockReleased(th, @)]
        /\ \/ LET inserted == Cardinality(cycle[th].conn.written)
              IN  /\ betting_odds' = CommittedTable(cycle[th].conn, th, writers.lock,
                                                    betting_odds)
                  /\ IF NotifyWanted(inserted)
                     THEN /\ cycle' = [cycle EXCEPT ![th].stage = "notify",
                                                    ![th].conn = NoCall,
                                                    ![th].inserted = inserted]
                          /\ UNCHANGED <<caller_pc, first_cycle, last_call, last_cycle>>
                     ELSE EndCycle(th, "done", "insert", 0, <<>>)
           \/ /\ EndCycle(th, "exception", "insert", 0, <<>>)
              /\ UNCHANGED betting_odds
        /\ UNCHANGED <<env_api_key, is_running, scheduler, n_cycles, last_fire>>
        /\ UNCHANGED <<tx, cur_batch, inserted_count, last_count, db_clock, n_writes,
                       last_odds, replaced, lookup_return, list_return>>
        /\ UNCHANGED <<oddsVars, hookVars, fetchVars>>

\* the events a collector run hands to insert_events, one at a time
SportEvents ==
    {[sport |-> "nfl", date |-> "T2", event |-> "Ab C vs De F",
      participants |-> <<"Ab C", "De F">>, location |-> "TBD"]}

\* SELECT id FROM events WHERE sport = ? AND date = ? AND event = ? finds a row
EventExists(table, ev) ==
    \E i \in 1..Len(table.rows) :
       /\ table.rows[i].sport = ev.sport
       /\ table.rows[i].date = ev.date
       /\ table.rows[i].event = ev.event

\* INSERT INTO events of the event ev
EventInserted(table, ev) ==
    [rows |-> Append(table.rows,
                     [id |-> table.seq + 1, sport |-> ev.sport, date |-> ev.date,
                      event |-> ev.event, participants |-> ev.participants,
                      location |-> ev.location, leagues |-> <<>>, watch_link |-> None]),
     seq |-> table.seq + 1]

\* DatabaseManager.insert_events([ev]) up to its conn.commit().  The SELECT
\* reads the table of the file.  When it finds the event, no statement writes.
\* Else the INSERT begins the transaction and takes the write lock of the file,
\* which the connection keeps until its commit, and the row is in the view of
\* the connection only; when another connection keeps the lock beyond the
\* timeout of the connection, the INSERT raises sqlite3.OperationalError, which
\* no except clause of the method catches.
InsertEvents ==
    /\ writers.events = NoCall
    /\ \E ev \in SportEvents :
          IF EventExists(sport_events, ev)
          THEN writers' = [writers EXCEPT !.events = [pc |-> "commit", table |-> sport_events,
                                                      inserted_count |-> 0]]
          ELSE writers' =
                  IF writers.lock = None
                  THEN [writers EXCEPT !.lock = "events",
                                       !.events = [pc |-> "commit",
                                                   table |-> EventInserted(sport_events, ev),
                                                   inserted_count |-> 1]]
                  ELSE [writers EXCEPT !.events = [pc |-> "raise", table |-> sport_events,
                                                   inserted_count |-> 0]]
    /\ UNCHANGED <<betting_odds, tx, cur_batch, inserted_count, last_count, db_clock,
                   n_writes, last_odds, replaced, lookup_return, list_return>>
    /\ UNCHANGED <<oddsVars, hookVars, fetchVars, schedVars>>

\* conn.commit() of the insert_events call and its return: the row the
\* connection wrote is in the table of the file and the write lock is free
InsertEventsCommit ==
    /\ writers.events.pc = "commit"
    /\ sport_events' = CommittedTable(writers.events, "events", writers.lock, sport_events)
    /\ writers' = [writers EXCEPT !.lock = LockReleased("events", @), !.events = NoCall]
    /\ UNCHANGED <<webhook_config, hook_pc, hook_events, hook_configs, hook_i, hook_attempt,
                   hook_results, hook_successes, hook_return, hook_called, net_posts,
                   test_return, guard_return, post_count, last_post>>
    /\ UNCHANGED <<betting_odds, tx, cur_batch, inserted_count, last_count, db_clock,
                   n_writes, last_odds, replaced, lookup_return, list_return>>
    /\ UNCHANGED <<oddsVars, fetchVars, schedVars>>

\* the OperationalError leaves the with block of insert_events, which rolls
\* back, and the call: the table of the file is as it was
InsertEventsRaises ==
    /\ writers.events.pc = "raise"
    /\ writers' = [writers EXCEPT !.events = NoCall]
    /\ UNCHANGED <<betting_odds, tx, cur_batch, inserted_count, last_count, db_clock,
                   n_writes, last_odds, replaced, lookup_return, list_return>>
    /\ UNCHANGED <<oddsVars, hookVars, fetchVars, schedVars>>

\* the notification stage: the payload is built, get_webhook_configs() is read
\* and the payload is logged; an exception is caught by the inner except clause
CycleNotify ==
    \E th \in Threads :
        /\ cycle[th] # NoCycle
        /\ cycle[th].stage = "notify"
        /\ \/ EndCycle(th, "done", "notify", cycle[th].inserted,
                       get_webhook_configs(webhook_config))
           \/ EndCycle(th, "notify_error", "notify", cycle[th].inserted, <<>>)
        /\ UNCHANGED <<env_api_key, is_running, scheduler, n_cycles, last_fire>>
        /\ UNCHANGED <<oddsVars, storeVars, hookVars, fetchVars>>

\* self.scheduler.start()
StartScheduler ==
    \E c \in Callers :
        /\ caller_pc[c] = "start_scheduler"
        /\ ~scheduler.running
        /\ scheduler' = [scheduler EXCEPT !.running = TRUE]
        /\ caller_pc' = [caller_pc EXCEPT ![c] = "set_running"]
        /\ UNCHANGED <<env_api_key, is_running, cycle, n_cycles, first_cycle,
                       last_call, last_cycle, last_fire>>
        /\ UNCHANGED <<oddsVars, storeVars, hookVars, fetchVars>>

\* self.scheduler.start() on a scheduler that runs already: APScheduler raises
\* SchedulerAlreadyRunningError, which leaves start()
StartSchedulerRaises ==
    \E c \in Callers :
        /\ caller_pc[c] = "start_scheduler"
        /\ scheduler.running
        /\ caller_pc' = [caller_pc EXCEPT ![c] = "idle"]
        /\ last_call' = [op |-> "start", result |-> "scheduler_raised",
                         first_cycle |-> first_cycle[c]]
        /\ first_cycle' = [first_cycle EXCEPT ![c] = "none"]
        /\ UNCHANGED <<env_api_key, is_running, scheduler, cycle, n_cycles, last_cycle,
                       last_fire>>
        /\ UNCHANGED <<oddsVars, storeVars, hookVars, fetchVars>>

\* self.is_running = True, and the return of start()
StartSetRunning ==
    \E c \in Callers :
        /\ caller_pc[c] = "set_running"
        /\ is_running' = RunningAfterStart
        /\ caller_pc' = [caller_pc EXCEPT ![c] = "idle"]
        /\ last_call' = [op |-> "start", result |-> "started",
                         first_cycle |-> first_cycle[c]]
        /\ first_cycle' = [first_cycle EXCEPT ![c] = "none"]
        /\ UNCHANGED <<env_api_key, scheduler, cycle, n_cycles, last_cycle,
                       last_fire>>
        /\ UNCHANGED <<oddsVars, storeVars, hookVars, fetchVars>>

\* stop() on a scheduler whose is_running is not set
StopNotRunning ==
    \E c \in Callers :
        /\ caller_pc[c] = "idle"
        /\ ~is_running
        /\ last_call' = [op |-> "stop", result |-> "not_running", first_cycle |-> "none"]
        /\ UNCHANGED <<env_api_key, is_running, scheduler, caller_pc, cycle, n_cycles,
                       first_cycle, last_cycle, last_fire>>
        /\ UNCHANGED <<oddsVars, storeVars, hookVars, fetchVars>>

\* stop() up to the wait of self.scheduler.shutdown(): no trigger fires any more
StopBegin ==
    \E c \in Callers :
        /\ caller_pc[c] = "idle"
        /\ is_running
        /\ scheduler.running
        /\ scheduler' = SchedulerShutdown(scheduler)
        /\ caller_pc' = [caller_pc EXCEPT ![c] = "shutdown"]
        /\ UNCHANGED <<env_api_key, is_running, cycle, n_cycles, first_cycle, last_call,
                       last_cycle, last_fire>>
        /\ UNCHANGED <<oddsVars, storeVars, hookVars, fetchVars>>

\* shutdown() returns once the pool has no running job; then
\* self.is_running = False
StopFinish ==
    \E c \in Callers :
        /\ caller_pc[c] = "shutdown"
        /\ RunningInstances = {}
        /\ scheduler' = [scheduler EXCEPT !.pool_shutdown = TRUE]
        /\ is_running' = FALSE
        /\ caller_pc' = [caller_pc EXCEPT ![c] = "idle"]
        /\ last_call' = [op |-> "stop", result |-> "stopped", first_cycle |-> "none"]
        /\ UNCHANGED <<env_api_key, cycle, n_cycles, first_cycle, last_cycle, last_fire>>
        /\ UNCHANGED <<oddsVars, storeVars, hookVars, fetchVars>>

\* the interval trigger fires and the job is submitted to the pool.  The pool is
\* the one the executor of the BackgroundScheduler was built with: shutdown()
\* shuts it down and scheduler.start() does not build another, so the trigger of
\* a scheduler started again after a stop() finds a pool that takes no job
\* (TimerSubmitFails)
TimerStartsCycle ==
    /\ scheduler.running
    /\ scheduler.job
    /\ ~scheduler.pool_shutdown
    /\ JobMayRun(Cardinality(RunningInstances))
    /\ n_cycles < MaxCycles
    /\ Workers \ RunningInstances # {}
    /\ LET w == CHOOSE w \in Workers : cycle[w] = NoCycle
       IN  cycle' = [cycle EXCEPT ![w] = NewCycle("timer", n_cycles + 1)]
    /\ n_cycles' = n_cycles + 1
    /\ last_fire' = [instances |-> Cardinality(RunningInstances), result |-> "started",
                     started_cycle |-> n_cycles + 1]
    /\ UNCHANGED <<env_api_key, is_running, scheduler, caller_pc, first_cycle,
                   last_call, last_cycle>>
    /\ UNCHANGED <<oddsVars, storeVars, hookVars, fetchVars>>

\* the interval trigger fires while max_instances instances of the job run: the
\* run is skipped and the job waits for its next run time
TimerSkips ==
    /\ scheduler.running
    /\ scheduler.job
    /\ ~JobMayRun(Cardinality(RunningInstances))
    /\ last_fire' = [instances |-> Cardinality(RunningInstances), result |-> "skipped",
                     started_cycle |-> LastStarted]
    /\ UNCHANGED <<env_api_key, is_running, scheduler, caller_pc, cycle, n_cycles,
                   first_cycle, last_call, last_cycle>>
    /\ UNCHANGED <<oddsVars, storeVars, hookVars, fetchVars>>

\* the interval trigger fires in a scheduler started again after a shutdown:
\* the pool that was shut down refuses the job (RuntimeError: cannot schedule new
\* futures after shutdown), the scheduler logs the error and the run is lost
TimerSubmitFails ==
    /\ scheduler.running
    /\ scheduler.job
    /\ scheduler.pool_shutdown
    /\ JobMayRun(Cardinality(RunningInstances))
    /\ last_fire' = [instances |-> Cardinality(RunningInstances), result |-> "submit_error",
                     started_cycle |-> LastStarted]
    /\ UNCHANGED <<env_api_key, is_running, scheduler, caller_pc, cycle, n_cycles,
                   first_cycle, last_call, last_cycle>>
    /\ UNCHANGED <<oddsVars, storeVars, hookVars, fetchVars>>

\* the process environment that os.getenv('ODDS_API_KEY') reads is set or
\* cleared between two reads
EnvChange ==
    /\ env_api_key' = ~env_api_key
    /\ UNCHANGED <<is_running, scheduler, caller_pc, cycle, n_cycles, first_cycle,
                   last_call, last_cycle, last_fire>>
    /\ UNCHANGED <<oddsVars, storeVars, hookVars, fetchVars>>

SchedNext ==
    \/ EnvChange
    \/ StartAlreadyRunning
    \/ StartDisabled
    \/ StartBegin
    \/ CycleRateLimit
    \/ CycleRateLimitStore
    \/ CycleAttempt
    \/ CycleRetrySleep
    \/ CycleParse
    \/ CycleInsert
    \/ CycleInsertCommit
    \/ CycleNotify
    \/ StartScheduler
    \/ StartSetRunning
    \/ StopNotRunning
    \/ StopBegin
    \/ StopFinish
    \/ TimerStartsCycle
    \/ TimerSkips
    \/ TimerSubmitFails

\* the cycles of a scheduler that is started and not stopped, the first in the
\* thread of start() and the others in the pool, while another connection
\* writes to the database file
CyclesNext ==
    \/ StartBegin
    \/ CycleRateLimit
    \/ CycleRateLimitStore
    \/ CycleAttempt
    \/ CycleRetrySleep
    \/ CycleParse
    \/ CycleInsert
    \/ CycleInsertCommit
    \/ CycleNotify
    \/ InsertEvents
    \/ InsertEventsCommit
    \/ InsertEventsRaises
    \/ StartScheduler
    \/ StartSetRunning
    \/ TimerStartsCycle
    \/ TimerSkips

\* two threads call start() on one scheduler: the steps of start() and of the
\* cycles they run
ConcurrentStartNext ==
    \/ StartAlreadyRunning
    \/ StartBegin
    \/ CycleRateLimit
    \/ CycleRateLimitStore
    \/ CycleAttempt
    \/ CycleRetrySleep
    \/ CycleParse
    \/ CycleInsert
    \/ CycleInsertCommit
    \/ CycleNotify
    \/ StartScheduler
    \/ StartSchedulerRaises
    \/ StartSetRunning

(***************************************************************************)
(* Lookup: get_odds_for_event of utils/database.py on the betting_odds     *)
(* table, between insert_betting_odds calls of one record                  *)
(***************************************************************************)
\* LIMIT 100 of the SELECT
ScanLimit == 100

\* The characters of the names and fragments of the model
Chars(text) ==
    CASE text = "Ab C" -> <<"A", "b", " ", "C">>
      [] text = "AB C" -> <<"A", "B", " ", "C">>
      [] text = "De F" -> <<"D", "e", " ", "F">>
      [] text = "Gh"   -> <<"G", "h">>
      [] text = "ab"   -> <<"a", "b">>
      [] text = "G"    -> <<"G">>
      [] text = "h"    -> <<"h">>
      [] text = "x"    -> <<"x">>
      [] text = "Team A" -> <<"T", "e", "a", "m", " ", "A">>
      [] text = "Team B" -> <<"T", "e", "a", "m", " ", "B">>

\* str.lower()
LowerStr(chars) ==
    LET LowerChar(c) ==
            CASE c = "A" -> "a" [] c = "B" -> "b" [] c = "C" -> "c" [] c = "D" -> "d"
              [] c = "E" -> "e" [] c = "F" -> "f" [] c = "G" -> "g" [] c = "H" -> "h"
              [] c = "T" -> "t"
              [] OTHER -> c
    IN  [i \in 1..Len(chars) |-> LowerChar(chars[i])]

\* ' '.join(participants)
RECURSIVE JoinSpace(_)
JoinSpace(texts) ==
    IF texts = <<>> THEN <<>>
    ELSE IF Len(texts) = 1 THEN Chars(texts[1])
    ELSE Chars(texts[1]) \o <<" ">> \o JoinSpace(Tail(texts))

\* a in b, for two str values
IsSubstring(a, b) ==
    \E k \in 0..(Len(b) - Len(a)) : SubSeq(b, k + 1, k + Len(a)) = a

\* datetime(commence_time) of SQLite, as an instant of db_clock
Datetime(text) ==
    CASE text = "T0" -> 0
      [] text = "T2" -> 2
      [] text = "T3" -> 3

\* the participants argument of a lookup
FragmentLists == {<<"ab">>, <<"AB C">>, <<"x", "De F">>, <<"G", "h">>, <<"x">>}

\* Records the table of a lookup is filled with: events without bookmakers
LookupRecords ==
    LET LookupEvent(id, commence_time, home_team, away_team) ==
            [id |-> id, commence_time |-> commence_time, home_team |-> home_team,
             away_team |-> away_team, bookmakers |-> <<>>]
    IN  {parse_single_event(LookupEvent("e1", "T2", "Ab C", "De F"), "nfl"),
         parse_single_event(LookupEvent("e2", "T3", "De F", "Gh"), "nfl"),
         parse_single_event(LookupEvent("e3", "T0", "Ab C", "Gh"), "nfl"),
         parse_single_event(LookupEvent("e4", "T2", "Ab C", "De F"), "nba")}

\* a bug: the fragment is looked for in the stored name
MatchesFragmentInName(row, participants) ==
    LET odds_participants == JsonLoads(row.participants)
    IN  \E i \in 1..Len(odds_participants), j \in 1..Len(participants) :
            IsSubstring(LowerStr(Chars(participants[j])),
                        LowerStr(Chars(odds_participants[i])))

\* any(p.lower() in ' '.join(participants).lower() for p in odds_participants)
Matches(row, participants) ==
    LET odds_participants == JsonLoads(row.participants)
    IN  \E i \in 1..Len(odds_participants) :
            IsSubstring(LowerStr(Chars(odds_participants[i])),
                        LowerStr(JoinSpace(participants)))

\* WHERE sport = ? AND datetime(commence_time) >= datetime('now')
SelectedRows(rows, sport, now) ==
    {i \in 1..Len(rows) : rows[i].sport = sport /\ Datetime(rows[i].commence_time) >= now}

\* ORDER BY scraped_at DESC: the orders of the selected rows the statement may
\* give, rows of equal scraped_at coming in any order
ScanOrders(rows, selected) ==
    {order \in [1..Cardinality(selected) -> selected] :
        /\ \A a, b \in 1..Cardinality(selected) : a # b => order[a] # order[b]
        /\ \A a, b \in 1..Cardinality(selected) :
              a < b => rows[order[a]].scraped_at >= rows[order[b]].scraped_at}

\* the columns of the SELECT, with the three JSON columns parsed
LookupEntry(row) ==
    [id              |-> row.id,
     event_id        |-> row.event_id,
     sport           |-> row.sport,
     commence_time   |-> row.commence_time,
     home_team       |-> row.home_team,
     away_team       |-> row.away_team,
     participants    |-> JsonLoads(row.participants),
     odds_data       |-> JsonLoads(row.odds_data),
     best_odds       |-> JsonLoads(row.best_odds),
     bookmaker_count |-> row.bookmaker_count,
     scraped_at      |-> row.scraped_at]

\* What the call may return with a LIMIT of limit rows: the loop over
\* odds_entries returns the first entry that matches, or None
LookupWithLimit(table, sport, participants, now, limit) ==
    LET ScanResult(order) ==
            LET hits == {k \in 1..Len(order) : Matches(table.rows[order[k]], participants)}
            IN  IF hits = {} THEN [found |-> FALSE]
                ELSE LET first == CHOOSE k \in hits : \A h \in hits : k <= h
                     IN  [found |-> TRUE, entry |-> LookupEntry(table.rows[order[first]])]
    IN  {ScanResult(SubSeq(order, 1, IF Len(order) < limit THEN Len(order) ELSE limit)) :
            order \in ScanOrders(table.rows, SelectedRows(table.rows, sport, now))}

get_odds_for_event(table, sport, participants, now) ==
    LookupWithLimit(table, sport, participants, now, ScanLimit)

\* insert_betting_odds([odds]) of one record, committed
StoreOdds ==
    /\ lookup_return = NoRecord
    /\ list_return = NoRecord
    /\ tx = NoTx
    /\ n_writes < MaxWrites
    /\ \E odds \in LookupRecords :
          betting_odds' = insert_betting_odds(betting_odds, <<odds>>, db_clock).table
    /\ n_writes' = n_writes + 1
    /\ UNCHANGED <<tx, cur_batch, inserted_count, last_count, db_clock, last_odds,
                   replaced, lookup_return, list_return, writers>>
    /\ UNCHANGED <<oddsVars, hookVars, fetchVars, schedVars>>

\* time passes between the calls
LookupClockTick ==
    /\ lookup_return = NoRecord
    /\ list_return = NoRecord
    /\ ClockTick

\* get_odds_for_event(sport, participants)
GetOddsForEventOf(sports, fragments) ==
    /\ lookup_return = NoRecord
    /\ list_return = NoRecord
    /\ tx = NoTx
    /\ \E sport \in sports, participants \in fragments :
          \E result \in get_odds_for_event(betting_odds, sport, participants, db_clock) :
              lookup_return' = [sport |-> sport, participants |-> participants,
                                result |-> result]
    /\ UNCHANGED <<betting_odds, tx, cur_batch, inserted_count, last_count, db_clock,
                   n_writes, last_odds, replaced, list_return, writers>>
    /\ UNCHANGED <<oddsVars, hookVars, fetchVars, schedVars>>

GetOddsForEvent == GetOddsForEventOf({"nfl", "nba"}, FragmentLists)

\* a bug: the SELECT without its condition on commence_time
ListFilterNoDate(row, sport, now) == sport = None \/ row.sport = sport

\* The WHERE clause of get_all_betting_odds; 'if sport:' chooses the statement
\* with the condition on the sport (None: no sport given)
ListFilter(row, sport, now) ==
    /\ sport = None \/ row.sport = sport
    /\ Datetime(row.commence_time) >= now

\* What get_all_betting_odds may return: the selected rows ORDER BY
\* commence_time ASC (the column is TEXT: the order is that of the texts; rows of
\* equal commence_time come in any order), LIMIT limit, as entries with the JSON
\* columns parsed
get_all_betting_odds(table, sport, now, limit) ==
    LET rows == table.rows
        \* the place of a commence_time text of the model in the order of texts
        TextRank(text) == CASE text = "T0" -> 1 [] text = "T2" -> 2 [] text = "T3" -> 3
        selected == {i \in 1..Len(rows) : ListFilter(rows[i], sport, now)}
        n == Cardinality(selected)
        orders == {order \in [1..n -> selected] :
                      /\ \A a, b \in 1..n : a # b => order[a] # order[b]
                      /\ \A a, b \in 1..n :
                            a < b => TextRank(rows[order[a]].commence_time)
                                        <= TextRank(rows[order[b]].commence_time)}
    IN  {[k \in 1..(IF n < limit THEN n ELSE limit) |-> LookupEntry(rows[order[k]])] :
            order \in orders}

\* get_all_betting_odds(sport, limit), limit being 100 when it is not given
GetAllBettingOddsOf(sports, limits) ==
    /\ lookup_return = NoRecord
    /\ list_return = NoRecord
    /\ tx = NoTx
    /\ \E sport \in sports, limit \in limits :
          \E result \in get_all_betting_odds(betting_odds, sport, db_clock, limit) :
              list_return' = [sport |-> sport, limit |-> limit, result |-> result]
    /\ UNCHANGED <<betting_odds, tx, cur_batch, inserted_count, last_count, db_clock,
                   n_writes, last_odds, replaced, lookup_return, writers>>
    /\ UNCHANGED <<oddsVars, hookVars, fetchVars, schedVars>>

GetAllBettingOdds == GetAllBettingOddsOf({None, "nfl", "nba"}, {1, 2, 100})

LookupNext ==
    \/ StoreOdds
    \/ LookupClockTick
    \/ GetOddsForEvent
    \/ GetAllBettingOdds


(***************************************************************************)
(* Specifications                                                          *)
(***************************************************************************)
OddsSpecInit == OddsInit /\ StoreInit /\ HookInit /\ FetchIdle /\ SchedIdle
SpecOdds == OddsSpecInit /\ [][OddsNext]_vars

\* every component at rest: the initial state of the specifications of the
\* store, of parse_events and of the lookup
StoreSpecInit == OddsIdle /\ StoreInit /\ HookInit /\ FetchIdle /\ SchedIdle
SpecGuard == StoreSpecInit /\ [][CheckUrl]_vars
SpecParse == StoreSpecInit /\ [][ParseNext]_vars
SpecLookup == StoreSpecInit /\ [][LookupNext]_vars
SpecGate == StoreSpecInit /\ [][GateNext]_vars
SpecWriters == StoreSpecInit /\ [][WritersNext]_vars
CollectSpecInit ==
    /\ OddsIdle
    /\ StoreInit
    /\ HookInit
    /\ FetchInitWith(CollectProviders)
    /\ proxy_list = <<>>
    /\ SchedIdle
SpecCollect == CollectSpecInit /\ [][CollectNext]_vars
SpecStore == StoreSpecInit /\ [][StoreNext]_vars

HookSpecInit == OddsIdle /\ StoreInit /\ HookInit /\ FetchIdle /\ SchedIdle
SpecHook == HookSpecInit /\ [][HookNext]_vars

\* one scheduler, the credential in the environment, two calling threads
ConcurrentStartInit ==
    /\ OddsWithBodies
    /\ StoreInit
    /\ HookInit
    /\ FetchOfScheduler
    /\ SchedInitWith({"t1", "t2"})
    /\ env_api_key = TRUE
SpecConcurrentStart == ConcurrentStartInit /\ [][ConcurrentStartNext]_vars

FetchSpecInit == OddsIdle /\ StoreInit /\ HookInit /\ FetchInit /\ SchedIdle
SpecFetch == FetchSpecInit /\ [][FetchNext]_vars

SchedSpecInit ==
    /\ OddsWithBodies
    /\ raw_data = EventPerSport
    /\ StoreInit
    /\ webhook_config \in WebhookTables
    /\ HookRest
    /\ FetchOfScheduler
    /\ SchedInit
SpecSched == SchedSpecInit /\ [][SchedNext]_vars

\* a scheduler with the credential and one subscription, and every provider
CyclesSpecInit ==
    /\ OddsWithBodies
    /\ StoreInit
    /\ webhook_config = OneConfig
    /\ HookRest
    /\ FetchOfScheduler
    /\ SchedInit
    /\ env_api_key = TRUE
SpecCycles == CyclesSpecInit /\ [][CyclesNext]_vars

(***************************************************************************)
(* The three tables side by side: insert_events, insert_betting_odds, one  *)
(* ingestion cycle and the two reads, with subscriptions in place          *)
(***************************************************************************)
MaxBatches == 1

\* batches of one record and of two records of different sports, the second
\* under the key of a record of the provider of the cycles or under a key of
\* its own
UpsertBatches ==
    LET first == {r \in LookupRecords : r.sport = "nba"}
        second == {r \in LookupRecords : r.sport = "nfl" /\ r.event_id \in {"e1", "e2"}}
    IN  {<<a>> : a \in first} \cup {<<a, b>> : a \in first, b \in second}

\* the thread of the API process that calls insert_betting_odds(batch)
FrameWriter == "a"

\* insert_betting_odds(batch), batch not empty, up to its loop: sqlite3.connect;
\* cur_batch keeps the argument of the call
InsertBettingOdds ==
    /\ tx = NoTx
    /\ lookup_return = NoRecord
    /\ list_return = NoRecord
    /\ writers.calls[FrameWriter] = NoCall
    /\ n_writes < MaxBatches
    /\ \E batch \in UpsertBatches : cur_batch' = batch
    /\ writers' = [writers EXCEPT !.calls[FrameWriter] = NewCall]
    /\ n_writes' = n_writes + 1
    /\ UNCHANGED <<betting_odds, tx, inserted_count, last_count, db_clock, last_odds,
                   replaced, lookup_return, list_return>>
    /\ UNCHANGED <<oddsVars, hookVars, fetchVars, schedVars>>

\* one pass of the loop of the call: the statement for the next record, with
\* the CURRENT_TIMESTAMP of its own
InsertBettingOddsStatement ==
    LET call == writers.calls[FrameWriter]
    IN  /\ call # NoCall
        /\ Len(call.batch) < Len(cur_batch)
        /\ LET done == ExecuteStatement(call, cur_batch[Len(call.batch) + 1], FrameWriter,
                                        writers.lock, betting_odds, db_clock)
           IN  writers' = [writers EXCEPT !.lock = done.lock,
                                          !.calls[FrameWriter] = done.call]
        /\ UNCHANGED <<betting_odds, tx, cur_batch, inserted_count, last_count, db_clock,
                       n_writes, last_odds, replaced, lookup_return, list_return>>
        /\ UNCHANGED <<oddsVars, hookVars, fetchVars, schedVars>>

\* conn.commit() of the call after its loop, and the return of its count
InsertBettingOddsCommit ==
    LET call == writers.calls[FrameWriter]
    IN  /\ call # NoCall
        /\ Len(call.batch) = Len(cur_batch)
        /\ betting_odds' = CommittedTable(call, FrameWriter, writers.lock, betting_odds)
        /\ last_count' = [value |-> Cardinality(call.written)]
        /\ writers' = [writers EXCEPT !.lock = LockReleased(FrameWriter, @),
                                      !.calls[FrameWriter] = NoCall]
        /\ UNCHANGED <<tx, cur_batch, inserted_count, db_clock, n_writes, last_odds,
                       replaced, lookup_return, list_return>>
        /\ UNCHANGED <<oddsVars, hookVars, fetchVars, schedVars>>

\* get_odds_for_event('nfl', ['ab']) next to the writes
FrameGetOddsForEvent == GetOddsForEventOf({"nfl"}, {<<"ab">>})

\* get_all_betting_odds() without a sport, with the default limit
FrameGetAllBettingOdds == GetAllBettingOddsOf({None}, {100})

FrameNext ==
    \/ InsertEvents
    \/ InsertEventsCommit
    \/ InsertEventsRaises
    \/ InsertBettingOdds
    \/ InsertBettingOddsStatement
    \/ InsertBettingOddsCommit
    \/ LookupClockTick
    \/ StartBegin
    \/ CycleRateLimit
    \/ CycleRateLimitStore
    \/ CycleAttempt
    \/ CycleRetrySleep
    \/ CycleParse
    \/ CycleInsert
    \/ CycleInsertCommit
    \/ CycleNotify
    \/ FrameGetOddsForEvent
    \/ FrameGetAllBettingOdds

\* a provider whose first answer is a 429 and which then answers every call
\* at once with the events it has
FrameProvider ==
    [script |-> <<ProviderAnswer(0, 0, {"status_429"})>>, rest |-> ProviderAnswer(0, 0, {"ok"})]

FrameSpecInit ==
    /\ OddsWithBodies
    /\ raw_data = EventPerSport
    /\ StoreInit
    /\ webhook_config = OneConfig
    /\ HookRest
    /\ FetchInitWith({FrameProvider})
    /\ api_key = TRUE
    /\ proxy_list = <<>>
    /\ SchedIdle
SpecFrame == FrameSpecInit /\ [][FrameNext]_vars

(***************************************************************************)
(* Claims about the normalizer                                             *)
(***************************************************************************)
OutcomeKeys == {"home", "away", "draw"}

\* the quotes of the head-to-head market of record rec whose outcome maps to key k
H2HQuotes(rec, k) ==
    LET all == UNION {{[bookmaker |-> rec.odds_data[i].bookmaker,
                        market    |-> rec.odds_data[i].market,
                        name      |-> rec.odds_data[i].outcomes[j].name,
                        price     |-> rec.odds_data[i].outcomes[j].price] :
                            j \in 1..Len(rec.odds_data[i].outcomes)} :
                        i \in 1..Len(rec.odds_data)}
    IN  {q \in all : /\ q.market = "h2h"
                     /\ OutcomeKey(q.name, rec.home_team, rec.away_team) = k}

MaxPrice(quotes) == CHOOSE p \in {q.price : q \in quotes} : \A q \in quotes : q.price <= p

\* the entry of key k is the maximum of quotes, with a bookmaker that offers it
IsBestOf(entry, quotes) ==
    /\ entry.price = MaxPrice(quotes)
    /\ \E q \in quotes : q.price = entry.price /\ q.bookmaker = entry.bookmaker

\* C5 as stated: for each outcome key, best_odds holds the maximum price over the
\* head-to-head quotes that map to the key, with the bookmaker that offers it, and
\* the zero default with no bookmaker when no head-to-head quote maps to the key.
C5_BestPriceOverAllQuotes ==
    parsed # NotParsed =>
        \A k \in OutcomeKeys :
            LET quotes == H2HQuotes(parsed, k)
            IN  IF quotes = {} THEN parsed.best_odds[k] = DefaultBest
                ELSE IsBestOf(parsed.best_odds[k], quotes)

\* C5 as amended: for each outcome key, best_odds holds the maximum price over the
\* head-to-head quotes that map to the key, with a bookmaker that offers it,
\* provided that maximum is positive; when no head-to-head quote with a positive
\* price maps to the key (none at all, or only quotes whose price is the zero
\* default of a missing field) the entry is the zero default with no bookmaker.
\* Quotes of other markets never count.
C5_BestPriceOverPositiveQuotes ==
    parsed # NotParsed =>
        \A k \in OutcomeKeys :
            LET quotes == {q \in H2HQuotes(parsed, k) : q.price > 0}
            IN  IF quotes = {} THEN parsed.best_odds[k] = DefaultBest
                ELSE IsBestOf(parsed.best_odds[k], quotes)

\* two bookmakers quote the home team at different prices, the better one last
C5_Witness ==
    /\ parsed # NotParsed
    /\ \E q1, q2 \in H2HQuotes(parsed, "home") :
          /\ q1.bookmaker = "B1" /\ q2.bookmaker = "B2"
          /\ 0 < q1.price /\ q1.price < q2.price
    /\ parsed.best_odds.home.bookmaker = "B2"

(***************************************************************************)
(* Claims about the store                                                  *)
(***************************************************************************)
\* the table as the insert in progress sees it, else the committed table
CurrentRows == IF tx # NoTx THEN tx.rows ELSE betting_odds.rows

UniqueKeys(rows) ==
    \A i, j \in 1..Len(rows) : OddsKey(rows[i]) = OddsKey(rows[j]) => i = j

\* the columns of a row that come from the record it was written from
RowContent(row) ==
    [event_id |-> row.event_id, sport |-> row.sport, commence_time |-> row.commence_time,
     home_team |-> row.home_team, away_team |-> row.away_team,
     participants |-> row.participants, odds_data |-> row.odds_data,
     best_odds |-> row.best_odds, bookmaker_count |-> row.bookmaker_count]

\* the last statement wrote a record identical to the one its key already held
Reingested ==
    /\ last_odds # NoRecord
    /\ replaced # NoRecord
    /\ RowContent(replaced) = RowContent(NewRow(0, last_odds, 0))

\* C2: the table never holds two rows with the same key (event_id, sport,
\* commence_time), committed or inside an insert; and when a record identical to
\* the stored one is ingested again, its key still has exactly one row, whose
\* best_odds is what it was after the first ingest.
C2_IdempotentUpsert ==
    /\ UniqueKeys(betting_odds.rows)
    /\ UniqueKeys(CurrentRows)
    /\ Reingested =>
          /\ Cardinality(RowsWithKey(CurrentRows, OddsKey(last_odds))) = 1
          /\ \A i \in RowsWithKey(CurrentRows, OddsKey(last_odds)) :
                CurrentRows[i].best_odds = replaced.best_odds

\* a one-record batch was committed twice, as the repository's test does
C2_Witness ==
    /\ Reingested
    /\ tx = NoTx
    /\ Len(cur_batch) = 1
    /\ last_count = [value |-> 1]
    /\ Len(betting_odds.rows) = 1
    /\ betting_odds.seq = 2

\* the rows the key of the record written last has
LastWritten == RowsWithKey(CurrentRows, OddsKey(last_odds))

\* C13: after the statement for a record succeeded, the key of the record has
\* one row, whose columns are those of the record (participants, odds_data,
\* best_odds, bookmaker_count: nothing of the row it replaced), whose scraped_at
\* is not older than that of any row and of the row it replaced, and which is
\* a new row (a new id).  The record written last for a key is the one stored.
C13_FullReplace ==
    last_odds # NoRecord =>
        /\ Cardinality(LastWritten) = 1
        /\ \A i \in LastWritten :
              /\ RowContent(CurrentRows[i]) = RowContent(NewRow(0, last_odds, 0))
              /\ JsonLoads(CurrentRows[i].odds_data) = last_odds.odds_data
              /\ JsonLoads(CurrentRows[i].best_odds) = last_odds.best_odds
              /\ CurrentRows[i].scraped_at <= db_clock
              /\ \A j \in 1..Len(CurrentRows) :
                    CurrentRows[j].scraped_at <= CurrentRows[i].scraped_at
              /\ replaced # NoRecord =>
                    /\ replaced.scraped_at <= CurrentRows[i].scraped_at
                    /\ replaced.id < CurrentRows[i].id
                    /\ \A j \in 1..Len(CurrentRows) : CurrentRows[j] # replaced

\* one batch wrote two different records for one key, the second a second later:
\* the row has the quotes of the second record and its time
C13_Witness ==
    /\ last_odds # NoRecord
    /\ replaced # NoRecord
    /\ Len(cur_batch) = 2
    /\ OddsKey(cur_batch[1]) = OddsKey(cur_batch[2])
    /\ cur_batch[1].bookmaker_count = 1
    /\ cur_batch[2].bookmaker_count = 2
    /\ \E i \in LastWritten :
          /\ CurrentRows[i].bookmaker_count = 2
          /\ CurrentRows[i].scraped_at > replaced.scraped_at


(***************************************************************************)
(* Claims about the dispatcher                                             *)
(***************************************************************************)
RejectedResult(name, url) ==
    [webhook |-> name, url |-> url, success |-> FALSE,
     error |-> "Invalid or unsafe webhook URL", attempts |-> 0]

\* C4: no requests.post is ever made to a URL the SSRF guard rejects, by a
\* dispatch or by test_webhook; the result for a rejected URL is the failure
\* result with 0 attempts (FALSE from test_webhook).
C4_NoPostToRejectedUrl ==
    /\ \A p \in net_posts : is_safe_webhook_url(p.url)
    /\ \A i \in 1..Len(hook_results) :
          ~is_safe_webhook_url(hook_results[i].url) =>
              hook_results[i] = RejectedResult(hook_results[i].webhook, hook_results[i].url)
    /\ (test_return # NoRecord /\ ~is_safe_webhook_url(test_return.url)) =>
          test_return.result = FALSE

\* a dispatch refused one subscription and posted to another, and test_webhook
\* refused a URL
C4_Witness ==
    /\ hook_pc = "done"
    /\ \E i \in 1..Len(hook_results) :
          /\ ~is_safe_webhook_url(hook_results[i].url)
          /\ hook_results[i].attempts = 0
    /\ \E p \in net_posts : p.mode = "dispatch"
    /\ test_return # NoRecord
    /\ ~is_safe_webhook_url(test_return.url)

\* the rows of webhook_config with enabled = TRUE
EnabledRows == {i \in 1..Len(webhook_config.rows) : webhook_config.rows[i].enabled}

\* the last send_new_events call went through its loop and has returned
DispatchReturned == hook_pc = "done" /\ hook_events # <<>> /\ EnabledRows # {}

\* C6: a dispatch of at least one event calls the delivery for every enabled
\* subscription and no disabled one, whatever the other deliveries came to: the
\* result list has one entry per enabled subscription, in table order,
\* total_webhooks is their number and webhooks_notified the number of entries
\* that succeeded.
C6_EveryEnabledSubscription ==
    DispatchReturned =>
        LET enabled == KeepRows(webhook_config.rows, EnabledRows)
            results == hook_return.results
        IN  /\ Len(results) = Cardinality(EnabledRows)
            /\ \A i \in 1..Len(results) :
                  /\ results[i].webhook = enabled[i].name
                  /\ results[i].url = enabled[i].url
            /\ hook_called = {webhook_config.rows[i].name : i \in EnabledRows}
            /\ hook_return.total_webhooks = Cardinality(EnabledRows)
            /\ hook_return.webhooks_notified =
                  Cardinality({i \in 1..Len(results) : results[i].success})

\* two subscribers: the delivery to the first failed on every attempt, the second
\* one was still delivered to
C6_Witness ==
    /\ DispatchReturned
    /\ Len(hook_return.results) = 2
    /\ ~hook_return.results[1].success
    /\ hook_return.results[1].url = UrlExample
    /\ hook_return.results[2].success
    /\ hook_return.webhooks_notified = 1
    /\ hook_return.total_webhooks = 2

\* the result of the delivery that ended last
LastResult == hook_results[Len(hook_results)]

\* a delivery has ended and none is in progress
DeliveryEnded == hook_results # <<>> /\ hook_attempt = 0

PostSucceeded(out) == out.kind = "status" /\ out.code \in SuccessCodes

\* C11: a delivery to an accepted URL makes at most 3 requests.post calls and
\* makes another one only after a call that did not succeed; a delivery that
\* ended on a success status reports success with that status and the number of
\* calls made; a delivery none of whose calls succeeded ends after the third
\* call and reports failure with the status or the error of that last call and 3
\* attempts.
C11_AtMostThreePosts ==
    /\ post_count <= 3
    /\ (hook_pc = "loop" /\ hook_attempt > 0) =>
          /\ post_count = hook_attempt
          /\ post_count < 3
          /\ ~PostSucceeded(last_post)
    /\ (/\ DeliveryEnded
        /\ is_safe_webhook_url(LastResult.url)
        /\ LastResult.success \/ "attempts" \in DOMAIN LastResult) =>
          LET r == LastResult
          IN  /\ post_count >= 1
              /\ IF PostSucceeded(last_post)
                 THEN r = [webhook |-> r.webhook, url |-> r.url, success |-> TRUE,
                           status_code |-> last_post.code, attempt |-> post_count]
                 ELSE /\ post_count = 3
                      /\ ~r.success
                      /\ r.attempts = 3
                      /\ CASE last_post.kind = "status" ->
                                 /\ r.status_code = last_post.code
                                 /\ r.error = HttpErrorText(last_post.code)
                           [] last_post.kind = "timeout" -> r.error = "Timeout"
                           [] OTHER -> r.error = "request_error"

\* a delivery whose three calls failed, the last with status 500
C11_Witness ==
    /\ DeliveryEnded
    /\ post_count = 3
    /\ last_post = [kind |-> "status", code |-> 500]
    /\ LastResult.attempts = 3
    /\ LastResult.error = "HTTP 500"

\* C12 as stated: for every send_new_events call that has returned, success is
\* true exactly when one of its deliveries succeeded.
C12_SuccessIffSomeDelivery ==
    hook_pc = "done" =>
        (hook_return.success <=> \E i \in 1..Len(hook_results) : hook_results[i].success)

\* C12, amended: the equivalence holds for every call with at least one event;
\* a call with no event returns success without any delivery.
C12_SuccessIffSomeDeliveryOfEvents ==
    hook_pc = "done" =>
        IF hook_events # <<>>
        THEN hook_return.success <=> \E i \in 1..Len(hook_results) : hook_results[i].success
        ELSE /\ hook_return = [success |-> TRUE, events_sent |-> 0, webhooks_notified |-> 0]
             /\ hook_results = <<>>

\* a call with events whose first delivery failed and whose second succeeded
C12_Witness ==
    /\ hook_pc = "done"
    /\ hook_events # <<>>
    /\ Len(hook_results) = 2
    /\ ~hook_results[1].success
    /\ hook_results[2].success
    /\ hook_return.success


(***************************************************************************)
(* Claims about the fetch client                                           *)
(***************************************************************************)
\* the requests.get calls of a trace
Gets(trace) == {i \in DOMAIN trace : trace[i].op = "get"}

\* the requests.get calls of a trace that received a 200
Gets200(trace) == {i \in Gets(trace) : trace[i].out \in Status200}

\* the requests.get calls of a trace that ended in an exception that is no
\* RequestException
GetsRaised(trace) == {i \in Gets(trace) : trace[i].out = "exception"}

\* C8: one _make_request makes at most 3 requests.get calls and no pass of its
\* loop follows the third; a 200 is the last thing of the request (no further
\* call and no sleep follows it) and the request returns that response; a
\* request none of whose calls received a 200 returns None.
C8_AtMostThreeAttempts ==
    /\ Cardinality(Gets(req_trace)) <= 3
    /\ fetch_pc = "attempt" => Cardinality(Gets(req_trace)) < 3
    /\ \A i \in Gets200(req_trace) :
          /\ i = Len(req_trace)
          /\ fetch_pc # "attempt"
          /\ req_return = [kind |-> "response", body |-> req_trace[i].out]
    /\ (/\ fetch_pc = "returned"
        /\ Gets200(req_trace) = {}
        /\ GetsRaised(req_trace) = {})
       => req_return = [kind |-> "none"]

\* a request that returned None after three calls, the last after a sleep
C8_Witness ==
    /\ fetch_pc = "returned"
    /\ Cardinality(Gets(req_trace)) = 3
    /\ \E i \in DOMAIN req_trace : req_trace[i].op = "sleep"
    /\ req_return = [kind |-> "none"]

\* a fetch_raw_data call with the credential has returned
FetchDone == fetch_mode = "cycle" /\ fetch_pc = "idle" /\ api_key /\ fetch_return # NoRecord

\* the results of a request that fetch_raw_data logs as a failure of its sport:
\* no response, an exception out of _make_request, or an exception while the
\* response is handled (response.json(), or len() of what it returned)
FailedResults == {"bad_json", "ok_null", "none", "raised"}

\* C9: during a fetch_raw_data call the requests made so far are for the first
\* sports of the mapping, in its order; when the call returns, a request was
\* made for every sport, the sports with data are exactly those whose request
\* did not fail (a failed sport yields no data), and the call returned (it did
\* not raise).
C9_EverySportRequested ==
    /\ fetch_mode = "cycle" =>
          /\ Len(requested) <= Len(Sports)
          /\ \A j \in DOMAIN requested : requested[j] = Sports[j]
    /\ FetchDone =>
          /\ requested = Sports
          /\ Len(cycle_log) = Len(Sports)
          /\ \A j \in DOMAIN cycle_log :
                /\ cycle_log[j].sport = Sports[j]
                /\ Sports[j] \in DOMAIN all_odds <=> cycle_log[j].result \notin FailedResults
          /\ fetch_return.kind \in {"data", "none"}
          /\ fetch_return.kind = "data" <=> DOMAIN all_odds # {}

\* a call that returned data for the second sport alone: the request for the
\* first sport failed
C9_Witness ==
    /\ FetchDone
    /\ cycle_log[1].result \in FailedResults
    /\ fetch_return.kind = "data"
    /\ DOMAIN fetch_return.odds = {Sports[2]}

\* C10: a requests.get is about to begin (the top of the retry loop) no sooner
\* than the minimum interval after the previous requests.get of the client began.
C10_MinIntervalBetweenCalls ==
    (fetch_pc = "attempt" /\ prev_call # NoRecord)
       => time_now - prev_call.time >= MinRequestInterval

(***************************************************************************)
(* Claims about the scheduler                                              *)
(***************************************************************************)
\* the threads that execute collect_and_notify
InFlight == {th \in Threads : cycle[th] # NoCycle}

\* C1: at most one cycle started by the interval trigger is in flight; a firing
\* of the trigger that finds an instance running is skipped, and only a firing
\* that finds none starts a cycle; the cycle in flight in the pool is the one the
\* last such firing started (no cycle is run later for a skipped firing).  The
\* cycle inside start() and the cycles of the trigger are never in flight together
\* either.
C1_SingleFlight ==
    /\ Cardinality(RunningInstances) <= 1
    /\ \A w \in RunningInstances :
          cycle[w].trigger = "timer" /\ cycle[w].number = LastStarted
    /\ last_fire # NoRecord =>
          /\ last_fire.instances >= 1 => last_fire.result = "skipped"
          /\ last_fire.result = "started" => last_fire.instances = 0
    /\ Cardinality(InFlight) <= 1

\* the trigger fired while a cycle it had started was running, and was skipped
C1_Witness ==
    /\ RunningInstances # {}
    /\ last_fire # NoRecord
    /\ last_fire.result = "skipped"
    /\ last_fire.instances = 1
    /\ \A w \in RunningInstances : cycle[w].number = last_fire.started_cycle

\* C3: a cycle whose insert_betting_odds returned more than 0 and that found
\* enabled subscriptions has made a requests.post to each of them.
C3_CycleNotifiesEverySubscription ==
    (/\ last_cycle # NoRecord
     /\ last_cycle.inserted > 0
     /\ last_cycle.configs # <<>>)
    => \A i \in DOMAIN last_cycle.configs :
          \E j \in DOMAIN last_cycle.posts :
              last_cycle.posts[j].url = last_cycle.configs[i].url

\* C7: a collect_and_notify call returns to its caller whatever its stages
\* raised; start() goes on to self.scheduler.start() after a first cycle that
\* failed; a scheduler whose is_running is set, and that no thread is shutting
\* down, has its trigger running and its job in place, and after a cycle that
\* ended in an exception a firing of the trigger that finds no instance running
\* starts a cycle.
C7_CycleExceptionContained ==
    /\ last_cycle # NoRecord => last_cycle.exit = "returned"
    /\ \A c \in Callers :
          first_cycle[c] = "exception" => caller_pc[c] \in {"start_scheduler", "set_running"}
    /\ last_call # NoRecord =>
          /\ last_call.result # "cycle_raised"
          /\ last_call.first_cycle = "exception" =>
                last_call.result = "started"
    /\ (is_running /\ \A c \in Callers : caller_pc[c] # "shutdown") =>
          scheduler.running /\ scheduler.job
    /\ (/\ last_cycle # NoRecord
        /\ last_cycle.outcome = "exception"
        /\ scheduler.running
        /\ scheduler.job
        /\ RunningInstances = {}
        /\ n_cycles < MaxCycles) => ENABLED TimerStartsCycle

\* C14: a start() that passed its two checks executes collect_and_notify once,
\* in the calling thread, while the trigger is not running and no other cycle is
\* in flight; scheduler.start() comes after that cycle has ended, and the call
\* returns with is_running set, the trigger running and the job in place, so
\* that a firing of the trigger that finds no instance running starts a cycle
\* and none is lost.
C14_StartRunsOneCycleFirst ==
    /\ \A c \in Callers :
          /\ caller_pc[c] = "first_cycle" =>
                /\ cycle[c] # NoCycle
                /\ cycle[c].trigger = "immediate"
                /\ cycle[c].number = n_cycles
                /\ InFlight = {c}
                /\ ~scheduler.running /\ scheduler.job /\ ~is_running
          /\ caller_pc[c] # "first_cycle" => cycle[c] = NoCycle
          /\ caller_pc[c] = "start_scheduler" =>
                /\ InFlight = {}
                /\ last_cycle # NoRecord
                /\ last_cycle.trigger = "immediate"
                /\ last_cycle.number = n_cycles
                /\ last_cycle.outcome = first_cycle[c]
                /\ ~scheduler.running /\ ~is_running
          /\ caller_pc[c] = "set_running" =>
                /\ first_cycle[c] # "none"
                /\ scheduler.running /\ scheduler.job
    /\ (last_call # NoRecord /\ last_call.op = "start") =>
          /\ last_call.result \in {"started", "already_running", "disabled"}
          /\ last_call.result = "started" =>
                /\ last_call.first_cycle # "none"
                /\ (\A c \in Callers : caller_pc[c] = "idle") =>
                      is_running /\ scheduler.running /\ scheduler.job
    /\ (/\ is_running
        /\ \A c \in Callers : caller_pc[c] = "idle"
        /\ RunningInstances = {}
        /\ n_cycles < MaxCycles) =>
          /\ ENABLED TimerStartsCycle
          /\ ~ENABLED TimerSubmitFails

\* C15: a start() made while is_running is set returns at its first check: the
\* call starts no cycle, calls neither add_job nor scheduler.start(), and leaves
\* is_running, the scheduler object with its job, the cycles in flight, the
\* store and the subscriptions as they were.
C15_StartWhenRunningIsNoOp ==
    [][(is_running /\ \A c \in Callers : caller_pc[c] = "idle") =>
          /\ \A c \in Callers : caller_pc'[c] \notin {"first_cycle", "start_scheduler",
                                                     "set_running"}
          /\ (last_call' # last_call /\ last_call'.op = "start") =>
                /\ last_call'.result = "already_running"
                /\ is_running'
                /\ UNCHANGED <<is_running, scheduler, caller_pc, cycle, n_cycles,
                               first_cycle, last_cycle, last_fire>>
                /\ UNCHANGED <<storeVars, hookVars, fetchVars>>]_vars

\* a start() was refused as already running while a cycle of the trigger was in
\* flight, and the scheduler still holds the job of its one add_job
C15_Witness ==
    /\ last_call # NoRecord
    /\ last_call.op = "start"
    /\ last_call.result = "already_running"
    /\ is_running
    /\ scheduler.running
    /\ scheduler.job_adds = 1
    /\ n_cycles = 2
    /\ RunningInstances # {}

\* C16: a start() that finds is_running clear and no ODDS_API_KEY in the
\* environment returns after its log lines: the step leaves is_running clear and
\* changes neither the scheduler object and its job, nor the cycles, the store,
\* the client's requests or the dispatcher's POSTs, and it returns normally.
\* While the scheduler is stopped and the key is absent no call leaves the idle
\* position; is_running is only set by the last step of a start() that found
\* the key present when it made its check.
C16_StartWithoutCredentialRefused ==
    [][/\ (last_call' # last_call /\ last_call'.op = "start"
                                  /\ last_call'.result = "disabled") =>
             /\ ~env_api_key /\ ~is_running /\ ~is_running'
             /\ UNCHANGED <<env_api_key, is_running, scheduler, caller_pc, cycle,
                            n_cycles, first_cycle, last_cycle, last_fire>>
             /\ UNCHANGED <<storeVars, hookVars, fetchVars>>
       /\ (~env_api_key /\ ~is_running /\ \A c \in Callers : caller_pc[c] = "idle") =>
             /\ \A c \in Callers : caller_pc'[c] = "idle"
             /\ ~is_running'
             /\ UNCHANGED <<scheduler, cycle, n_cycles>>
       /\ \A c \in Callers :
             /\ (caller_pc[c] = "idle" /\ caller_pc'[c] = "first_cycle") => env_api_key
             /\ (caller_pc[c] # "first_cycle" /\ caller_pc'[c] = "first_cycle") =>
                   caller_pc[c] = "idle"
             /\ (caller_pc[c] # "start_scheduler" /\ caller_pc'[c] = "start_scheduler") =>
                   caller_pc[c] = "first_cycle"
             /\ (caller_pc[c] # "set_running" /\ caller_pc'[c] = "set_running") =>
                   caller_pc[c] = "start_scheduler"
       /\ (~is_running /\ is_running') =>
             \E c \in Callers : caller_pc[c] = "set_running" /\ caller_pc'[c] = "idle"]_vars

\* a start() was refused for want of the key on a scheduler that had run and was
\* stopped before: nothing runs and the job of the earlier start is all there is
C16_Witness ==
    /\ last_call # NoRecord
    /\ last_call.op = "start"
    /\ last_call.result = "disabled"
    /\ ~env_api_key
    /\ ~is_running
    /\ scheduler.job_adds = 1
    /\ scheduler.pool_shutdown
    /\ InFlight = {}

\* C17: stop() on a running scheduler shuts the trigger down and returns only
\* when the pool has no running job: once it has returned is_running is clear,
\* the trigger does not run, no cycle is in flight and no firing can start one;
\* from then on the next cycle to begin is the one a start() runs itself.  From
\* the shutdown on no cycle begins, and a cycle in flight keeps taking its steps
\* and ends by its own return.  stop() with is_running clear changes nothing.
C17_StopPreventsNewCycles ==
    /\ [](\A c \in Callers :
            /\ (~is_running /\ caller_pc[c] = "idle") =>
                  /\ ~scheduler.running
                  /\ RunningInstances = {}
                  /\ ~ENABLED TimerStartsCycle
            /\ caller_pc[c] = "shutdown" =>
                  /\ ~scheduler.running
                  /\ ~ENABLED TimerStartsCycle
                  /\ RunningInstances # {} =>
                        ENABLED (CycleRateLimit \/ CycleRateLimitStore \/ CycleAttempt \/ CycleRetrySleep
                                    \/ CycleParse \/ CycleInsert \/ CycleInsertCommit \/ CycleNotify)
                  /\ RunningInstances # {} => ~ENABLED StopFinish)
    /\ [][/\ \A c \in Callers :
                /\ caller_pc[c] = "shutdown" => n_cycles' = n_cycles
                /\ (caller_pc[c] = "shutdown" /\ caller_pc'[c] = "idle") =>
                      /\ ~is_running'
                      /\ last_call' = [op |-> "stop", result |-> "stopped",
                                       first_cycle |-> "none"]
                /\ (~is_running /\ caller_pc[c] = "idle" /\ n_cycles' # n_cycles) =>
                      /\ caller_pc'[c] = "first_cycle"
                      /\ cycle'[c].trigger = "immediate"
          /\ \A th \in Threads :
                (cycle[th] # NoCycle /\ cycle'[th] = NoCycle) =>
                    /\ last_cycle'.thread = th
                    /\ last_cycle'.number = cycle[th].number
                    /\ last_cycle'.exit = "returned"
          /\ (last_call' # last_call /\ last_call'.op = "stop"
                                     /\ last_call'.result = "not_running") =>
                /\ ~is_running
                /\ UNCHANGED <<env_api_key, is_running, scheduler, caller_pc, cycle,
                               n_cycles, first_cycle, last_cycle, last_fire>>
                /\ UNCHANGED <<storeVars, hookVars, fetchVars>>]_vars

\* stop() is waiting in shutdown() while a cycle that the trigger started has
\* fetched its data and goes on
C17_Witness ==
    /\ \E c \in Callers : caller_pc[c] = "shutdown"
    /\ is_running
    /\ ~scheduler.running
    /\ \E w \in RunningInstances : cycle[w].trigger = "timer" /\ cycle[w].stage # "fetch"

(***************************************************************************)
(* Claims about parse_events                                               *)
(***************************************************************************)
\* an entry that is an event object with its keys and a list of bookmakers
WellFormed(entry) == entry.kind = "dict" /\ entry.present /\ ~entry.bookmakers_null

RECURSIVE RecordsOf(_, _, _)
RecordsOf(items, i, sport) ==
    IF i > Len(items) THEN <<>>
    ELSE (IF WellFormed(items[i]) THEN <<parse_single_event(items[i].ev, sport)>> ELSE <<>>)
            \o RecordsOf(items, i + 1, sport)

\* the records of the well-formed entries of all payloads, in payload order
RECURSIVE ExpectedRecords(_, _)
ExpectedRecords(raw, i) ==
    IF i > Len(raw) THEN <<>>
    ELSE RecordsOf(raw[i].payload.items, 1, raw[i].sport) \o ExpectedRecords(raw, i + 1)

\* C18: whatever the payloads, parse_events returns, without raising, the
\* records of the well-formed entries of all sports, one each and in payload
\* order, every other entry being skipped.
C18_OneRecordPerWellFormedEntry ==
    parse_return # NoRecord =>
        /\ ~parse_return.raised
        /\ parse_return.value = ExpectedRecords(raw_data, 1)

(***************************************************************************)
(* Claims about the lookup                                                 *)
(***************************************************************************)
\* the rows of the sport asked for whose commence_time is not in the past
Scanned ==
    {i \in 1..Len(betting_odds.rows) :
        /\ betting_odds.rows[i].sport = lookup_return.sport
        /\ Datetime(betting_odds.rows[i].commence_time) >= db_clock}

RowNames(i) ==
    LET names == JsonLoads(betting_odds.rows[i].participants)
    IN  {names[k] : k \in 1..Len(names)}

\* a fragment of the call is, letter case apart, inside a participant name of row i
FragmentInsideName(i) ==
    \E name \in RowNames(i), j \in 1..Len(lookup_return.participants) :
        IsSubstring(LowerStr(Chars(lookup_return.participants[j])), LowerStr(Chars(name)))

\* a participant name of row i is, letter case apart, inside the space-joined
\* fragments of the call
NameInsideFragments(i) ==
    \E name \in RowNames(i) :
        IsSubstring(LowerStr(Chars(name)), LowerStr(JoinSpace(lookup_return.participants)))

\* C19: when a row of the sport with a commence_time that is not past has a
\* participant name that contains a fragment of the call, whatever the letter
\* case, the call returns such a row and not None.
C19_FragmentFindsRow ==
    (lookup_return # NoRecord /\ \E i \in Scanned : FragmentInsideName(i)) =>
        /\ lookup_return.result.found
        /\ \E i \in Scanned :
              /\ FragmentInsideName(i)
              /\ lookup_return.result.entry.id = betting_odds.rows[i].id

\* the rows of Scanned observed later than row i, and those other than i
\* observed no earlier
LaterThan(i) ==
    {j \in Scanned : betting_odds.rows[j].scraped_at > betting_odds.rows[i].scraped_at}
NoEarlierThan(i) ==
    {j \in Scanned \ {i} :
        betting_odds.rows[j].scraped_at >= betting_odds.rows[i].scraped_at}

\* C20: the call returns a row of the sport asked for whose commence_time is not
\* past, one of whose participant names is inside the space-joined fragments,
\* and no such row was observed later than it; it returns None when no such row
\* has such a name.  With a LIMIT of L rows the returned row is among the L
\* most recently observed, and None is returned only when every row with such a
\* name may fall outside them.
C20_FirstMatchInRecencyOrder ==
    lookup_return # NoRecord =>
        /\ Cardinality(Scanned) <= ScanLimit
        /\ IF lookup_return.result.found
           THEN \E i \in Scanned :
                   /\ lookup_return.result.entry = LookupEntry(betting_odds.rows[i])
                   /\ lookup_return.result.entry.participants
                         = <<betting_odds.rows[i].home_team, betting_odds.rows[i].away_team>>
                   /\ NameInsideFragments(i)
                   /\ \A j \in LaterThan(i) : ~NameInsideFragments(j)
           ELSE \A i \in Scanned : ~NameInsideFragments(i)
        /\ \A limit \in {1, 2, ScanLimit} :
              \A r \in LookupWithLimit(betting_odds, lookup_return.sport,
                                       lookup_return.participants, db_clock, limit) :
                  IF r.found
                  THEN \E i \in Scanned :
                          /\ r.entry.id = betting_odds.rows[i].id
                          /\ NameInsideFragments(i)
                          /\ Cardinality(LaterThan(i)) < limit
                          /\ \A j \in LaterThan(i) : ~NameInsideFragments(j)
                  ELSE \A i \in Scanned :
                          NameInsideFragments(i) => Cardinality(NoEarlierThan(i)) >= limit

\* a lookup of two fragments returned the later observed of two rows of the
\* sport that both match, a third row of the sport being past
C20_Witness ==
    /\ lookup_return # NoRecord
    /\ lookup_return.participants = <<"x", "De F">>
    /\ lookup_return.result.found
    /\ Cardinality({i \in Scanned : NameInsideFragments(i)}) = 2
    /\ \E i \in Scanned :
          /\ lookup_return.result.entry.id = betting_odds.rows[i].id
          /\ \E j \in Scanned : betting_odds.rows[j].scraped_at < betting_odds.rows[i].scraped_at
    /\ \E i \in 1..Len(betting_odds.rows) :
          /\ betting_odds.rows[i].sport = lookup_return.sport
          /\ i \notin Scanned

\* the rows get_all_betting_odds was asked for: not past, and of the sport when
\* one was given
Eligible ==
    {i \in 1..Len(betting_odds.rows) :
        /\ Datetime(betting_odds.rows[i].commence_time) >= db_clock
        /\ list_return.sport # None => betting_odds.rows[i].sport = list_return.sport}

\* C21: every entry get_all_betting_odds returns is a row whose commence_time
\* has not passed and, when a sport was given, a row of that sport; no row comes
\* twice; the entries come by ascending commence_time; every such row is
\* returned when they are no more than the limit, and otherwise the limit many
\* with the earliest commence_time.
C21_ListFutureRowsOfSport ==
    list_return # NoRecord =>
        LET res  == list_return.result
            rows == betting_odds.rows
        IN  /\ \A k \in 1..Len(res) :
                  \E i \in Eligible :
                      /\ res[k] = LookupEntry(rows[i])
                      /\ res[k].participants = <<rows[i].home_team, rows[i].away_team>>
                      /\ Datetime(res[k].commence_time) >= db_clock
                      /\ list_return.sport # None => res[k].sport = list_return.sport
            /\ \A a, b \in 1..Len(res) :
                  a < b => /\ res[a].id # res[b].id
                           /\ Datetime(res[a].commence_time) <= Datetime(res[b].commence_time)
            /\ Len(res) = IF Cardinality(Eligible) < list_return.limit
                          THEN Cardinality(Eligible) ELSE list_return.limit
            /\ \A i \in Eligible :
                  (\A k \in 1..Len(res) : res[k].id # rows[i].id) =>
                      \A k \in 1..Len(res) :
                          Datetime(res[k].commence_time) <= Datetime(rows[i].commence_time)

\* the rows of one sport were asked for in a table that holds three of them, one
\* past: the two others came back, the earlier first
C21_Witness ==
    /\ list_return # NoRecord
    /\ list_return.sport = "nfl"
    /\ list_return.limit = 100
    /\ Len(betting_odds.rows) = 3
    /\ \A i \in 1..3 : betting_odds.rows[i].sport = "nfl"
    /\ Len(list_return.result) = 2
    /\ list_return.result[1].commence_time = "T2"
    /\ list_return.result[2].commence_time = "T3"

(***************************************************************************)
(* Claims about insert_betting_odds                                        *)
(***************************************************************************)
\* the records of the batch the table accepts: none of the columns it
\* declares NOT NULL is null
Writable ==
    {k \in 1..Len(cur_batch) :
        /\ cur_batch[k].event_id # None /\ cur_batch[k].sport # None
        /\ cur_batch[k].commence_time # None
        /\ cur_batch[k].home_team # None /\ cur_batch[k].away_team # None}

\* C22: when insert_betting_odds has returned, its result is the number of the
\* records of the batch whose statement succeeded; each of these records has its
\* key in the committed table, in one row, with the content of the last of them
\* that has this key, whatever records of the batch failed before or after it;
\* no row comes from a record that failed; an empty batch returns 0; and a call
\* that opens no transaction leaves the table as it was.
C22_CountOfSuccessfulWrites ==
    /\ []((tx = NoTx /\ last_count # NoRecord) =>
            /\ last_count.value = Cardinality(Writable)
            /\ cur_batch = <<>> => last_count.value = 0
            /\ \A k \in Writable :
                  LET same == {j \in Writable : OddsKey(cur_batch[j]) = OddsKey(cur_batch[k])}
                      last == CHOOSE j \in same : \A h \in same : h <= j
                      held == RowsWithKey(betting_odds.rows, OddsKey(cur_batch[k]))
                  IN  /\ Cardinality(held) = 1
                      /\ \A i \in held :
                            RowContent(betting_odds.rows[i])
                               = RowContent(NewRow(0, cur_batch[last], 0))
            /\ \A i \in 1..Len(betting_odds.rows) : betting_odds.rows[i].home_team # None)
    /\ [][(tx = NoTx /\ tx' = NoTx) => betting_odds' = betting_odds]_vars

\* a batch of three records was committed, the second of which the table
\* refused: the call returned 2 and the key holds the third record
C22_Witness ==
    /\ tx = NoTx
    /\ last_count = [value |-> 2]
    /\ Len(cur_batch) = 3
    /\ Writable = {1, 3}
    /\ OddsKey(cur_batch[1]) = OddsKey(cur_batch[3])
    /\ cur_batch[1].bookmaker_count # cur_batch[3].bookmaker_count
    /\ Len(betting_odds.rows) = 1
    /\ betting_odds.rows[1].bookmaker_count = cur_batch[3].bookmaker_count

(***************************************************************************)
(* Claims about the guard of the dispatcher                                *)
(***************************************************************************)
\* the hostname of the URL the guard was asked about, in lower case
GuardHost ==
    [i \in 1..Len(guard_return.url.host) |-> LowerText(guard_return.url.host[i])]

\* the hostname is a dotted quad of 10.0.0.0/8, 172.16.0.0/12 or 192.168.0.0/16
PrivateQuad ==
    /\ Len(GuardHost) = 4
    /\ \/ GuardHost[1] = "10"
       \/ GuardHost[1] = "192" /\ GuardHost[2] = "168"
       \/ GuardHost[1] = "172" /\ GuardHost[2] \in {"16", "20", "31"}

\* C23: the guard accepts a URL exactly when its scheme is http or https, it has
\* a hostname, the hostname in lower case is none of localhost, 127.0.0.1,
\* 0.0.0.0 and ::1, and the hostname begins with none of '10.', '192.168.' and
\* '172.16.' to '172.31.'; so it refuses every dotted quad of the three private
\* ranges and accepts https://example.com.
C23_GuardAcceptsExactly ==
    guard_return # NoRecord =>
        /\ guard_return.result =
              (/\ LowerText(guard_return.url.scheme) \in {"http", "https"}
               /\ GuardHost # <<>>
               /\ GuardHost \notin {<<"localhost">>, <<"127", "0", "0", "1">>,
                                    <<"0", "0", "0", "0">>, <<"::1">>}
               /\ ~(Len(GuardHost) > 1 /\ GuardHost[1] = "10")
               /\ ~(Len(GuardHost) > 2 /\ GuardHost[1] = "192" /\ GuardHost[2] = "168")
               /\ ~(Len(GuardHost) > 2 /\ GuardHost[1] = "172"
                                       /\ GuardHost[2] \in PrivateSecondLabels))
        /\ PrivateQuad => ~guard_return.result
        /\ guard_return.url = UrlExample => guard_return.result

\* the guard refused an https URL whose host is an address of 172.16.0.0/12
C23_Witness ==
    /\ guard_return # NoRecord
    /\ guard_return.url = [scheme |-> "https", host |-> <<"172", "20", "1", "5">>]
    /\ ~guard_return.result

----------------------------------------------------------------------------
\* C24

\* a step in which _make_request calls _get_next_proxy: on entry when rotation is
\* asked for, on the way to a new pass after a status other than 200 and 429,
\* and after the sleep that follows a requests exception
ProxyTaken ==
    \/ fetch_pc = "rate_limit" /\ fetch_pc' = "attempt" /\ req_use_proxy'
    \/ /\ fetch_pc = "attempt"
       /\ req_use_proxy
       /\ req_attempt' = req_attempt + 1
       /\ req_trace'[Len(req_trace) + 1].out = "status_500"
    \/ /\ fetch_pc = "retry_sleep"
       /\ req_use_proxy
       /\ req_attempt' = req_attempt + 1
       /\ req_trace[Len(req_trace) - 1].out = "request_error"

\* C24: the rotation index starts at 0 and stays within 0..n-1; every call of
\* _get_next_proxy with a list of n > 0 proxies returns the proxy at the index and
\* moves the index by one, back to 0 after n-1, whatever the request came to, so
\* that the k-th call returns proxy (k-1) mod n; no other step moves the index;
\* with an empty list the call returns no proxy and leaves the index where it was.
C24_ProxyRotation ==
    /\ current_proxy_index = 0
    /\ [](IF proxy_list = <<>> THEN current_proxy_index = 0
          ELSE current_proxy_index \in 0..(Len(proxy_list) - 1))
    /\ [][LET n == Len(proxy_list)
          IN  /\ proxy_list' = proxy_list
              /\ (ProxyTaken /\ n > 0) =>
                    /\ req_proxies' = proxy_list[current_proxy_index + 1]
                    /\ current_proxy_index' = (current_proxy_index + 1) % n
                    /\ current_proxy_index' =
                          IF current_proxy_index = n - 1 THEN 0
                          ELSE current_proxy_index + 1
              /\ (ProxyTaken /\ n = 0) =>
                    /\ req_proxies' = None
                    /\ current_proxy_index' = current_proxy_index
              /\ ~ProxyTaken => current_proxy_index' = current_proxy_index]_vars

\* the third call of one request, after two failures: the rotation has wrapped
\* back to the first proxy
C24_Witness ==
    /\ proxy_list = <<"P1", "P2">>
    /\ fetch_pc = "attempt"
    /\ req_use_proxy
    /\ req_attempt = 2
    /\ n_requests = 1
    /\ req_proxies = "P1"
    /\ current_proxy_index = 1
    /\ req_trace[1].out = "status_500"

----------------------------------------------------------------------------
\* C25

\* a step in which a request passes _rate_limit: the clock before the step is the
\* time the pass begins, the clock after it the time the pass completes
GatePassed == n_requests' = n_requests + 1

\* C25: a pass through _rate_limit that follows another pass of the same client
\* completes no earlier than min_request_interval after the pass before it
\* completed; the time it waits is at most what is left of the interval plus the
\* jitter of 0.5 s; it waits nothing when the interval has elapsed already; and
\* the moment it completes is the one the next pass measures from.
C25_GateKeepsInterval ==
    [][(GatePassed /\ n_requests >= 1) =>
          LET since == time_now - last_request_time[FetchClient]
              left == IF since < MinRequestInterval THEN MinRequestInterval - since ELSE 0
              wait == time_now' - time_now
          IN  /\ time_now' >= last_request_time[FetchClient] + MinRequestInterval
              /\ wait >= 0
              /\ wait <= left + MaxJitter
              /\ since >= MinRequestInterval => wait = 0
              /\ last_request_time'[FetchClient] = time_now']_vars

\* the second request follows at once a request answered at once: its pass waits
\* the whole interval and the whole jitter
C25_Witness ==
    /\ n_requests = 2
    /\ fetch_pc = "attempt"
    /\ req_trace = <<>>
    /\ prev_call # NoRecord
    /\ last_request_time[FetchClient] = prev_call.time + MinRequestInterval + MaxJitter
    /\ time_now = last_request_time[FetchClient]

\* the second request follows a request that was held up longer than the
\* interval: its pass does not wait
C25_WitnessNoWait ==
    /\ n_requests = 2
    /\ fetch_pc = "attempt"
    /\ req_trace = <<>>
    /\ prev_call # NoRecord
    /\ last_request_time[FetchClient] >= prev_call.time + RateLimitedWait(0)
    /\ time_now = last_request_time[FetchClient]

----------------------------------------------------------------------------
\* C26

\* C26: without the credential fetch_raw_data returns None and does not raise; it
\* requests no sport, makes no HTTP request, does not pass the rate-limit gate and
\* lets no time go by.
C26_DisabledWithoutCredential ==
    /\ []((~api_key /\ fetch_mode = "cycle") =>
            /\ fetch_pc = "idle"
            /\ fetch_return = [kind |-> "none"]
            /\ requested = <<>>
            /\ cycle_log = <<>>
            /\ all_odds = <<>>)
    /\ [][(~api_key /\ fetch_pc = "idle" /\ fetch_mode' = "cycle") =>
            /\ fetch_return' = [kind |-> "none"]
            /\ fetch_pc' = "idle"
            /\ n_requests' = n_requests
            /\ req_trace' = req_trace
            /\ prev_call' = prev_call
            /\ time_now' = time_now
            /\ last_request_time' = last_request_time
            /\ current_proxy_index' = current_proxy_index]_vars

\* fetch_raw_data has returned None on a client without the credential, after a
\* request made on its own had left its trace
C26_Witness ==
    /\ ~api_key
    /\ fetch_mode = "cycle"
    /\ fetch_pc = "idle"
    /\ fetch_return = [kind |-> "none"]
    /\ n_requests = 1
    /\ Len(req_trace) = 1

----------------------------------------------------------------------------
\* C27

\* h hundredths of a percent is 100 / price rounded to two decimals, price in
\* tenths: no other multiple of 0.01 is nearer to 100000 / price hundredths
NearestHundredth(h, price) ==
    LET d == h * price - 100000
    IN  2 * (IF d < 0 THEN 0 - d ELSE d) <= price

\* prices on which the computation is probed, in tenths: negative, zero, positive
ProbedPrices == (0 - 30)..64

\* C27: the probability stored with a best price p is 100 / p rounded to two
\* decimals when p > 0 (40.00 for 2.5) and 0 when the price is 0, which is the case
\* of no quote; the computation has a value for every price, 0 for a price of 0 or
\* below, where nothing is divided.
C27_ImpliedProbability ==
    /\ parsed # NotParsed =>
          \A k \in OutcomeKeys :
              LET best == parsed.best_odds[k]
              IN  /\ best.price >= 0
                  /\ best.price > 0 => NearestHundredth(best.probability, best.price)
                  /\ best.price = 25 => best.probability = 4000
                  /\ best.price = 0 => best.probability = 0
                  /\ H2HQuotes(parsed, k) = {} => best.price = 0 /\ best.probability = 0
    /\ \A p \in ProbedPrices :
          /\ p <= 0 => Probability(p) = 0
          /\ p > 0 => NearestHundredth(Probability(p), p)

\* the home team is quoted at 2.7, the draw at 2.5 and the away team not at all
C27_Witness ==
    /\ parsed # NotParsed
    /\ parsed.best_odds.home = [price |-> 27, bookmaker |-> "B1", probability |-> 3704]
    /\ parsed.best_odds.draw = [price |-> 25, bookmaker |-> "B1", probability |-> 4000]
    /\ parsed.best_odds.away = DefaultBest
    /\ H2HQuotes(parsed, "away") = {}

----------------------------------------------------------------------------
\* C28

\* C28: when two threads call start() on one scheduler that has its credential,
\* one of the calls runs the first cycle and starts the timer and the other does
\* nothing: never two cycles in flight, the job added once, and no call that ends
\* in an exception.
C28_ConcurrentStartIdempotent ==
    /\ Cardinality({th \in Threads : cycle[th] # NoCycle}) <= 1
    /\ scheduler.job_adds <= 1
    /\ last_call # NoRecord => last_call.result \in {"started", "already_running"}

----------------------------------------------------------------------------
\* C29

\* C29: of any two provider requests that follow each other in one process, made
\* through the same collector or through two, by one thread or by two, the second
\* begins no less than min_request_interval after the first.
C29_OneIntervalPerProcess ==
    Len(gate.begins) = 2 =>
        gate.begins[2].time - gate.begins[1].time >= MinRequestInterval

----------------------------------------------------------------------------
\* C30

\* the records the calls in progress or finished have written for key k
WrittenFor(k) ==
    UNION {{call.batch[n] : n \in {m \in call.written : OddsKey(call.batch[m]) = k}} :
              call \in {writers.calls[w] : w \in {v \in Writers : writers.calls[v] # NoCall}}}

\* the tables that can be read: the committed one and the view of each
\* connection that holds or held the write lock
ReadableTables ==
    {betting_odds} \cup {writers.calls[w].table : w \in {v \in Writers : writers.calls[v] # NoCall}}

\* C30: while two insert_betting_odds calls with records of the same key run at
\* the same time, a key has at most one row, and the row is entirely one of the
\* records written for the key: its odds_data, best_odds and bookmaker_count are
\* those of one record; when both calls have returned, every key a record was
\* written for has exactly one row.
C30_ConcurrentUpsertsWholeRows ==
    /\ \A table \in ReadableTables :
          \A i \in 1..Len(table.rows) :
              /\ RowsWithKey(table.rows, OddsKey(table.rows[i])) = {i}
              /\ \E odds \in WrittenFor(OddsKey(table.rows[i])) :
                    RowContent(table.rows[i]) = RowContent(NewRow(0, odds, 0))
    /\ (\A w \in Writers : writers.calls[w] # NoCall /\ writers.calls[w].pc = "done") =>
          /\ writers.lock = None
          /\ \A w \in Writers :
                \A n \in writers.calls[w].written :
                    Cardinality(RowsWithKey(betting_odds.rows,
                                            OddsKey(writers.calls[w].batch[n]))) = 1

\* both calls have returned; the first record of b, for the key a was writing,
\* was refused while a held the lock, its second record, for the same key, was
\* written after a's commit: the one row of the key is b's record
C30_Witness ==
    /\ \A w \in Writers : writers.calls[w] # NoCall /\ writers.calls[w].pc = "done"
    /\ writers.calls["a"].written = {1}
    /\ writers.calls["b"].written = {2}
    /\ Len(writers.calls["b"].batch) = 2
    /\ OddsKey(writers.calls["a"].batch[1]) = OddsKey(writers.calls["b"].batch[2])
    /\ OddsKey(writers.calls["b"].batch[1]) = OddsKey(writers.calls["b"].batch[2])
    /\ ~ViolatesNotNull(writers.calls["b"].batch[1])
    /\ writers.calls["a"].batch[1].bookmaker_count = 1
    /\ writers.calls["b"].batch[2].bookmaker_count = 2
    /\ Len(betting_odds.rows) = 1
    /\ betting_odds.rows[1].bookmaker_count = 2

----------------------------------------------------------------------------
\* C31

\* the index of the attempt that made entry k of the trace of a request
AttemptIndex(k) == Cardinality({j \in 1..(k - 1) : req_trace[j].op = "get"})

\* C31: a 429 at attempt i is followed by a wait of (i + 1) * 5 s (10 half seconds
\* each) and, once the wait is over, by a further attempt of the request: no wait
\* is the last thing a request does.
C31_RateLimitedWaitThenRetry ==
    \A k \in 1..Len(req_trace) :
        (req_trace[k].op = "get" /\ req_trace[k].out = "status_429") =>
            /\ k < Len(req_trace)
            /\ req_trace[k + 1] = [op |-> "sleep", units |-> (AttemptIndex(k) + 1) * 10]
            /\ fetch_pc \notin {"attempt", "retry_sleep"} =>
                  /\ k + 2 <= Len(req_trace)
                  /\ req_trace[k + 2].op = "get"

----------------------------------------------------------------------------
\* C32

\* a pass of the retry loop whose requests.get raises a requests exception
\* (a timeout is one)
TransportErrorPass ==
    /\ fetch_pc = "attempt"
    /\ Len(req_trace') > Len(req_trace)
    /\ req_trace'[Len(req_trace) + 1] = [op |-> "get", out |-> "request_error"]

\* the end of the sleep of a pass whose requests.get raised a requests exception
TransportErrorWake ==
    /\ fetch_pc = "retry_sleep"
    /\ req_trace[Len(req_trace) - 1] = [op |-> "get", out |-> "request_error"]

\* C32: after a transport error at attempt 0 or 1 the client sleeps 1 s or 2 s
\* (2 ** attempt; 2 or 4 half seconds), then takes the next proxy when rotation
\* is in use and keeps its proxy otherwise, and makes its next attempt; after a
\* transport error at attempt 2 it returns None at once, with no sleep.
C32_TransportErrorBackoff ==
    [][/\ TransportErrorPass =>
          LET gone == time_now' - time_now
          IN  IF req_attempt < 2
              THEN /\ req_trace' = req_trace \o
                        <<[op |-> "get", out |-> "request_error"],
                          [op |-> "sleep", units |-> IF req_attempt = 0 THEN 2 ELSE 4]>>
                   /\ gone \in Durations
                   /\ fetch_pc' = "retry_sleep"
                   /\ sleep_until' = time_now' + (IF req_attempt = 0 THEN 2 ELSE 4)
                   /\ req_attempt' = req_attempt
                   /\ req_return' = req_return
                   /\ req_proxies' = req_proxies
                   /\ current_proxy_index' = current_proxy_index
              ELSE /\ req_trace' = Append(req_trace, [op |-> "get", out |-> "request_error"])
                   /\ gone \in Durations
                   /\ fetch_pc' = "returned"
                   /\ req_return' = [kind |-> "none"]
                   /\ req_proxies' = req_proxies
                   /\ current_proxy_index' = current_proxy_index
       /\ TransportErrorWake =>
          LET n == Len(proxy_list)
          IN  /\ req_attempt < 2
              /\ time_now' - time_now = (IF req_attempt = 0 THEN 2 ELSE 4)
              /\ req_trace' = req_trace
              /\ fetch_pc' = "attempt"
              /\ req_attempt' = req_attempt + 1
              /\ req_return' = req_return
              /\ IF req_use_proxy /\ n > 0
                 THEN /\ req_proxies' = proxy_list[current_proxy_index + 1]
                      /\ current_proxy_index' = (current_proxy_index + 1) % n
                 ELSE /\ current_proxy_index' = current_proxy_index
                      /\ req_proxies' = IF req_use_proxy THEN None ELSE req_proxies]_vars

\* three transport errors in a request that rotates two proxies: waits of 1 s and
\* 2 s, the third attempt through the first proxy again, then None
C32_Witness ==
    /\ fetch_pc = "returned"
    /\ req_use_proxy
    /\ proxy_list = <<"P1", "P2">>
    /\ n_requests = 1
    /\ req_trace = <<[op |-> "get", out |-> "request_error"], [op |-> "sleep", units |-> 2],
                     [op |-> "get", out |-> "request_error"], [op |-> "sleep", units |-> 4],
                     [op |-> "get", out |-> "request_error"]>>
    /\ req_proxies = "P1"
    /\ req_return = [kind |-> "none"]

----------------------------------------------------------------------------
\* C33

\* the last thing the request did was a requests.get answered by a status that
\* is neither 200 nor 429
EndsWithOtherStatus ==
    /\ Len(req_trace) > 0
    /\ req_trace[Len(req_trace)] = [op |-> "get", out |-> "status_500"]

\* C33: after a status that is neither 200 nor 429, a client with a proxy pool
\* goes on to a further attempt through a proxy of the pool as long as the three
\* attempts are not used up, and a client without a pool gives the request up,
\* with no data, only at its third attempt.
C33_OtherStatusRetried ==
    /\ (EndsWithOtherStatus /\ fetch_pc = "returned") =>
          /\ req_return = [kind |-> "none"]
          /\ AttemptIndex(Len(req_trace)) = MaxRetries - 1
    /\ (EndsWithOtherStatus /\ fetch_pc = "attempt" /\ proxy_list # <<>>) =>
          /\ req_proxies # None
          /\ \E i \in 1..Len(proxy_list) : req_proxies = proxy_list[i]

----------------------------------------------------------------------------
\* C34

\* the sports of the call whose request came back with a payload that is not
\* empty
SportsWithPayload ==
    {cycle_log[k].sport : k \in {j \in 1..Len(cycle_log) : cycle_log[j].result = "ok"}}

\* C34: the mapping fetch_raw_data returns has exactly the sports whose request
\* succeeded with a payload that is not empty, and the call returns None when
\* there is no such sport.
C34_MappingOmitsFailedAndEmpty ==
    (fetch_mode = "cycle" /\ fetch_pc = "idle" /\ fetch_return # NoRecord) =>
        IF SportsWithPayload = {}
        THEN fetch_return = [kind |-> "none"]
        ELSE /\ fetch_return.kind = "data"
             /\ DOMAIN fetch_return.odds = SportsWithPayload
             /\ \A sport \in DOMAIN fetch_return.odds : fetch_return.odds[sport] # <<>>

----------------------------------------------------------------------------
\* C35

\* the quotes of the record: bookmaker, market, name and price of every outcome
\* of its odds_data
RawQuotes(rec) ==
    UNION {{[bookmaker |-> rec.odds_data[i].bookmaker,
             market    |-> rec.odds_data[i].market,
             name      |-> rec.odds_data[i].outcomes[j].name,
             price     |-> rec.odds_data[i].outcomes[j].price] :
                 j \in 1..Len(rec.odds_data[i].outcomes)} :
           i \in 1..Len(rec.odds_data)}

\* the outcomes of the provider's event, the absent price read as 0
EventQuotes(ev) ==
    UNION {UNION {{[bookmaker |-> ev.bookmakers[b].title,
                    market    |-> ev.bookmakers[b].markets[m].key,
                    name      |-> ev.bookmakers[b].markets[m].outcomes[o].name,
                    price     |-> IF ev.bookmakers[b].markets[m].outcomes[o].price = <<>>
                                  THEN 0
                                  ELSE ev.bookmakers[b].markets[m].outcomes[o].price[1]] :
                        o \in 1..Len(ev.bookmakers[b].markets[m].outcomes)} :
                  m \in 1..Len(ev.bookmakers[b].markets)} :
           b \in 1..Len(ev.bookmakers)}

\* the name stands for key k, each key taken by itself
StandsFor(name, k, rec) ==
    CASE k = "home" -> name = rec.home_team
      [] k = "away" -> name = rec.away_team
      [] OTHER      -> name \in {"draw", "Draw", "DRAW"}

\* the name stands for key k, the keys taken in the order home, away, draw and
\* a name standing for the first key it fits only
StandsForFirst(name, k, rec) ==
    CASE k = "home" -> name = rec.home_team
      [] k = "away" -> name = rec.away_team /\ name # rec.home_team
      [] OTHER      -> /\ name \in {"draw", "Draw", "DRAW"}
                       /\ name \notin {rec.home_team, rec.away_team}

\* entry is the best price of quotes: the greatest positive price with a
\* bookmaker that offers it, or the zero default when no price is positive
BestPriceOf(entry, quotes) ==
    LET positive == {q \in quotes : q.price > 0}
    IN  IF positive = {} THEN entry = DefaultBest ELSE IsBestOf(entry, positive)

\* C35 as stated: for every pair of team names the head-to-head outcomes named as
\* the home team count for home, those named as the away team for away, those
\* named draw in any letter case for draw; outcomes of other names change no best
\* price and are in the raw quotes of the record.
C35_OutcomeKeyResolution ==
    parsed # NotParsed =>
        /\ RawQuotes(parsed) = EventQuotes(event)
        /\ \A k \in OutcomeKeys :
              BestPriceOf(parsed.best_odds[k],
                          {q \in RawQuotes(parsed) :
                              q.market = "h2h" /\ StandsFor(q.name, k, parsed)})

\* C35 as amended: a head-to-head outcome counts for one key only, the first it
\* fits in the order home (its name equals the home team string), away (its name
\* equals the away team string), draw (its name is draw in any letter case); so
\* when both team strings are equal their outcomes count for home and none for
\* away.  Outcomes of other names change no best price and are in the raw quotes
\* of the record.
C35_OutcomeKeyFirstMatch ==
    parsed # NotParsed =>
        /\ RawQuotes(parsed) = EventQuotes(event)
        /\ \A k \in OutcomeKeys :
              BestPriceOf(parsed.best_odds[k],
                          {q \in RawQuotes(parsed) :
                              q.market = "h2h" /\ StandsForFirst(q.name, k, parsed)})

\* a head-to-head market quotes "Draw" at 2.5 and "Over" at 2.7: the draw entry
\* is 2.5 and the other quote is in the record
C35_Witness ==
    /\ parsed # NotParsed
    /\ parsed.home_team # parsed.away_team
    /\ \E q \in RawQuotes(parsed) : q.market = "h2h" /\ q.name = "Over" /\ q.price = 27
    /\ \E q \in RawQuotes(parsed) : q.market = "h2h" /\ q.name = "Draw"
    /\ \A q \in RawQuotes(parsed) : q.name # "draw"
    /\ parsed.best_odds.draw.price = 25

----------------------------------------------------------------------------
\* C36

\* the places of the head-to-head outcomes of the record that count for key k:
\* <<i, j>> is outcome j of entry i of odds_data, in payload order
PlacesFor(rec, k) ==
    {<<i, j>> \in (1..Len(rec.odds_data)) \X (1..MaxPayload) :
        /\ j <= Len(rec.odds_data[i].outcomes)
        /\ rec.odds_data[i].market = "h2h"
        /\ StandsForFirst(rec.odds_data[i].outcomes[j].name, k, rec)}

Before(p, q) == p[1] < q[1] \/ (p[1] = q[1] /\ p[2] < q[2])

PriceAt(rec, p) == rec.odds_data[p[1]].outcomes[p[2]].price

\* C36: when a key has a positive head-to-head price, its best_odds entry is the
\* first quote in payload order that has the greatest price of the key: no
\* earlier quote of the key has a price as high, no later one a higher price,
\* and the bookmaker and the probability of the entry are those of that quote.
C36_FirstMaximumKept ==
    parsed # NotParsed =>
        \A k \in OutcomeKeys :
            LET places == PlacesFor(parsed, k)
                best == parsed.best_odds[k]
            IN  (\E p \in places : PriceAt(parsed, p) > 0) =>
                    \E p \in places :
                        /\ PriceAt(parsed, p) = best.price
                        /\ parsed.odds_data[p[1]].bookmaker = best.bookmaker
                        /\ NearestHundredth(best.probability, PriceAt(parsed, p))
                        /\ \A q \in places :
                              /\ Before(q, p) => PriceAt(parsed, q) < best.price
                              /\ Before(p, q) => PriceAt(parsed, q) <= best.price

\* B1 and then B2 quote the home team at 2.7: the entry names B1
C36_Witness ==
    /\ parsed # NotParsed
    /\ \E p, q \in PlacesFor(parsed, "home") :
          /\ Before(p, q)
          /\ PriceAt(parsed, p) = 27 /\ PriceAt(parsed, q) = 27
          /\ parsed.odds_data[p[1]].bookmaker = "B1"
          /\ parsed.odds_data[q[1]].bookmaker = "B2"
    /\ parsed.best_odds.home = [price |-> 27, bookmaker |-> "B1", probability |-> 3704]

----------------------------------------------------------------------------
\* C37

\* C37: bookmaker_count of a record is the number of distinct bookmaker names
\* in the entries of its odds_data.
C37_BookmakerCountDistinct ==
    parsed # NotParsed =>
        parsed.bookmaker_count =
            Cardinality({parsed.odds_data[i].bookmaker : i \in 1..Len(parsed.odds_data)})

----------------------------------------------------------------------------
\* C38

\* the stage that may follow a stage inside one cycle
StageAfter(stage) ==
    CASE stage = "fetch"  -> "parse"
      [] stage = "parse"  -> "insert"
      [] stage = "insert" -> "notify"
      [] OTHER            -> "none"

\* C38: a cycle begins at its fetch and goes through fetch, normalize, upsert
\* and notify in this order, one stage at a time and none twice (the requests
\* and sleeps of the fetch and the statements of the upsert are steps inside
\* their stage); a cycle whose fetch returns no data ends in its fetch stage and
\* one whose normalization yields no record in its normalize stage, both with
\* the table untouched; the notification stage is entered, and a cycle ends in
\* it, only after an upsert that reported more than 0 rows, and an upsert that
\* reported 0 rows ends the cycle in its upsert stage.
C38_StagesInOrder ==
    /\ [](last_cycle # NoRecord =>
            /\ last_cycle.outcome = "no_data" => last_cycle.stage = "fetch"
            /\ last_cycle.outcome = "no_records" => last_cycle.stage = "parse"
            /\ last_cycle.stage \in {"fetch", "parse"} => last_cycle.inserted = 0
            /\ last_cycle.stage = "notify" => last_cycle.inserted > 0)
    /\ [][\A th \in Threads :
            /\ (cycle[th] = NoCycle /\ cycle'[th] # NoCycle) => cycle'[th].stage = "fetch"
            /\ (cycle[th] # NoCycle /\ cycle'[th] # NoCycle /\ cycle'[th] # cycle[th]) =>
                  /\ cycle'[th].stage \in {cycle[th].stage, StageAfter(cycle[th].stage)}
                  /\ cycle'[th].stage = cycle[th].stage =>
                        cycle[th].stage \in {"fetch", "insert"}
                  /\ cycle'[th].number = cycle[th].number
                  /\ (cycle[th].stage = "fetch" /\ cycle'[th].stage = "parse") =>
                        FetchedData(cycle'[th].fetch.stored) # <<>>
                  /\ (cycle[th].stage = "parse" /\ cycle'[th].stage = "insert") =>
                        cycle'[th].parsed_odds # <<>>
                  /\ (cycle[th].stage = "insert" /\ cycle'[th].stage = "notify") =>
                        /\ Len(cycle[th].conn.batch) = Len(cycle[th].parsed_odds)
                        /\ cycle'[th].inserted = Cardinality(cycle[th].conn.written)
                        /\ cycle'[th].inserted > 0
            /\ (cycle[th] # NoCycle /\ cycle[th].stage \in {"fetch", "parse"}
                   /\ cycle'[th] # cycle[th]) =>
                  betting_odds' = betting_odds
            /\ (cycle[th] # NoCycle /\ cycle'[th] = NoCycle) =>
                  /\ last_cycle'.number = cycle[th].number
                  /\ last_cycle'.stage = cycle[th].stage
                  /\ (cycle[th].stage = "insert" /\ last_cycle'.outcome = "done") =>
                        /\ Len(cycle[th].conn.batch) = Len(cycle[th].parsed_odds)
                        /\ cycle[th].conn.written = {}]_vars

\* a cycle is in its notification stage after an upsert of two records that no
\* column refuses, of which one statement found the database locked and the
\* other wrote its row
C38_Witness ==
    \E th \in Threads :
        /\ cycle[th] # NoCycle
        /\ cycle[th].stage = "notify"
        /\ Len(cycle[th].parsed_odds) = 2
        /\ \A i \in 1..2 : ~ViolatesNotNull(cycle[th].parsed_odds[i])
        /\ cycle[th].inserted = 1
        /\ Len(betting_odds.rows) = 1
        /\ writers.lock = None

----------------------------------------------------------------------------
\* C39

\* C39: a collect_betting_odds call that reports success reports as collected
\* the number of records its normalizer produced and as inserted the number of
\* rows the store wrote, and every record the normalizer produced has a row
\* under its key.
C39_CollectNowStoresEveryRecord ==
    (collect_return # NoRecord /\ collect_return.success) =>
        /\ collect_return.odds_collected = Len(collect_return.normalized)
        /\ collect_return.odds_inserted = collect_return.written
        /\ \A i \in 1..Len(collect_return.normalized) :
              RowsWithKey(betting_odds.rows, OddsKey(collect_return.normalized[i])) # {}

----------------------------------------------------------------------------
\* C40

BatchKeys(batch) == {OddsKey(batch[i]) : i \in 1..Len(batch)}

\* the rows of the table whose key is not among keys
OtherRows(table, keys) ==
    {table.rows[i] : i \in {j \in 1..Len(table.rows) : OddsKey(table.rows[j]) \notin keys}}

\* C40: every step of an ingestion cycle and of an upsert batch (its statements
\* and its commit) leaves the SportEvent rows, the webhook subscriptions and
\* every odds row whose key is not in the batch as they were, and no other step
\* changes an odds row; a lookup and a listing leave all three tables as they
\* were.
C40_FrameEffect ==
    [][/\ \A th \in Threads :
             cycle'[th] # cycle[th] =>
                LET batch == IF cycle[th] # NoCycle THEN cycle[th].parsed_odds ELSE <<>>
                IN  /\ sport_events' = sport_events
                    /\ webhook_config' = webhook_config
                    /\ OtherRows(betting_odds', BatchKeys(batch))
                          = OtherRows(betting_odds, BatchKeys(batch))
       /\ writers'.calls[FrameWriter] # writers.calls[FrameWriter] =>
             /\ sport_events' = sport_events
             /\ webhook_config' = webhook_config
             /\ OtherRows(betting_odds', BatchKeys(cur_batch'))
                   = OtherRows(betting_odds, BatchKeys(cur_batch'))
       /\ betting_odds' # betting_odds =>
             \/ writers'.calls[FrameWriter] # writers.calls[FrameWriter]
             \/ \E th \in Threads : cycle'[th] # cycle[th]
       /\ (lookup_return' # lookup_return \/ list_return' # list_return) =>
             /\ sport_events' = sport_events
             /\ webhook_config' = webhook_config
             /\ betting_odds' = betting_odds]_vars

\* a batch of two records has written one row and found the database locked
\* by the cycle for the other, the cycle has written, a row under a key outside
\* the batch is in the table next to a SportEvent row and a subscription, and a
\* lookup has answered
C40_Witness ==
    /\ Len(cur_batch) = 2
    /\ writers.calls[FrameWriter] = NoCall
    /\ last_count # NoRecord
    /\ last_count.value = 1
    /\ OtherRows(betting_odds, BatchKeys(cur_batch)) # {}
    /\ last_cycle # NoRecord
    /\ last_cycle.inserted > 0
    /\ sport_events.rows # <<>>
    /\ webhook_config.rows # <<>>
    /\ lookup_return # NoRecord

=============================================================================
